---- MODULE Spec2Model ----
(***************************************************************************)
(* Negotiation turn engine of scripts/run_production_negotiation.py:       *)
(* NegotiationService._execute_negotiation_rounds and the helpers it       *)
(* calls (_execute_single_round, normalize_model_output,                   *)
(* _determine_outcome, _should_extend_negotiation, analyze_convergence,    *)
(* _normalize_round_metadata, _calculate_total_rounds, _finalize_results). *)
(*                                                                         *)
(* A state is the service at a suspension point: before the rounds start   *)
(* (pc = "start"), awaiting the agent of the next turn (pc = "loop"), or   *)
(* after run_negotiation has returned (pc = "done").                       *)
(*                                                                         *)
(* Numbers are kept in tenths: a score (confidence, batna_assessment,      *)
(* walk_away_threshold) of 5 stands for 0.5 and a dimension value of 1000  *)
(* for 100.0.  Outside a session (pc = "off") a helper function is         *)
(* evaluated on its own, on inputs drawn from bounded sets.                *)
(***************************************************************************)
EXTENDS Integers, Sequences, FiniteSets, TLC

VARIABLES
    pc,             \* "start" | "loop" | "done"
    args_max_rounds,\* self.args.max_rounds
    user_role,      \* self.user_role
    opponent_role,  \* self.opponent_role
    results,        \* the transcript: results / args.existing_conversation
    turn_index,     \* local turn_index of the loop
    max_rounds,     \* local max_rounds of the loop (the round budget)
    final_outcome,  \* local final_outcome, then self._final_outcome
    final_result,   \* what run_negotiation returns
    seed_len,       \* history: length of the pre-seeded transcript
    invoked,        \* history: the agent invocations, <<turn index, role>>
    end_cause,      \* history: why the loop was left early
    last_class,     \* history: _determine_outcome of the turn just recorded
    ext,            \* history: the extension check of the turn just recorded
    stop_requested, \* environment: a stop of the session has been asked for
    stdout_open,    \* environment: the pipe behind sys.stdout is still open
    events,         \* history: the calls of emit_round_update, in order
    fn              \* a helper function under evaluation, outside a session

vars == <<pc, args_max_rounds, user_role, opponent_role, results, turn_index,
          max_rounds, final_outcome, final_result, seed_len, invoked,
          end_cause, last_class, ext, stop_requested, stdout_open, events, fn>>

----------------------------------------------------------------------------
(* Bounds of the model *)

MaxRounds == 2
MaxSeedTurns == 2
MaxNewTurns == 4

----------------------------------------------------------------------------
(* Program constants *)

ABSOLUTE_MAX_ROUNDS == 20
ConvergenceThresholdPct == 10
MinConvergenceRatioPct == 50
ExtensionRounds == 3
DefaultBatnaTenths == 5
DefaultConfidenceTenths == 5
DefaultThresholdTenths == 3
LongResponseLen == 3000
TruncationWindow == 500

BUYER == "BUYER"
SELLER == "SELLER"

DEAL_ACCEPTED == "DEAL_ACCEPTED"
TERMINATED == "TERMINATED"
WALK_AWAY == "WALK_AWAY"
PAUSED == "PAUSED"
MAX_ROUNDS_REACHED == "MAX_ROUNDS_REACHED"
ERROR == "ERROR"

AllowedActions == {"continue", "accept", "terminate", "walk_away", "pause"}

TerminalOutcomes == {DEAL_ACCEPTED, TERMINATED, WALK_AWAY, PAUSED}

Min(a, b) == IF a <= b THEN a ELSE b
Max(a, b) == IF a >= b THEN a ELSE b
Abs(a) == IF a < 0 THEN 0 - a ELSE a

----------------------------------------------------------------------------
(* Python values.  A scalar is a number, a string, or missing (the key is   *)
(* absent or holds None).  A string holds no digit (Text), is the text of  *)
(* a number such as "30" (NumText), or holds a number among other text     *)
(* such as "Net 30" (MixText).                                             *)

Num(n) == [t |-> "num", v |-> n]
Text == [t |-> "str", v |-> 0]
NumText(n) == [t |-> "numstr", v |-> n]
MixText(n) == [t |-> "mixstr", v |-> n]
Absent == [t |-> "none", v |-> 0]

(* _extract_numeric: a number is taken as it is; a string yields the first *)
(* number in it; anything else yields None.                                *)
ExtractNumeric(x) ==
    IF x.t \in {"num", "numstr", "mixstr"} THEN Num(x.v) ELSE Absent

(* float(x) succeeds on a number and on the text of a number. *)
IsFloat(x) == x.t \in {"num", "numstr"}

(* _safe_float_convert: None and whatever float() rejects become 0.0. *)
SafeFloatConvert(x) == IF IsFloat(x) THEN x.v ELSE 0

(* int(round(x)): the nearest integer, a tie going to the even one. *)
RoundToInt(x) ==
    LET q == x \div 10
        r == x % 10
    IN  IF r < 5 THEN 10 * q
        ELSE IF r > 5 THEN 10 * (q + 1)
        ELSE IF q % 2 = 0 THEN 10 * q ELSE 10 * (q + 1)

(* Line 311: the units whose values are rounded to an integer (those      *)
(* written in ASCII; "%" stands for any unit holding a percent sign). *)
IntegerUnits ==
    {"usd", "eur", "gbp", "currency", "$", "days", "months", "years",
     "weeks", "%"}

(* One entry of the dimension registry; unit is lower-cased. *)
Dim(name, minValue, maxValue, targetValue, unit) ==
    [name |-> name, minValue |-> minValue, maxValue |-> maxValue,
     targetValue |-> targetValue, unit |-> unit]

(* The dimension registry of the session: one dimension, Price, in EUR. *)
Dimensions == { Dim("Price", Num(500), Num(2000), Num(1000), "eur") }

(* dim_index.get(key), lines 217-229 and 291: the registry entries of that *)
(* name (names are unique in a registry). *)
DimMeta(dimensions, key) == { d \in dimensions : d.name = key }

(* Lines 302-312: min and max come out of _safe_float_convert, so both     *)
(* are floats and both are applied; then the rounding by unit. *)
ClampAndRound(val, d) ==
    LET clamped == Min(Max(val, SafeFloatConvert(d.minValue)),
                       SafeFloatConvert(d.maxValue))
    IN  IF d.unit \in IntegerUnits THEN RoundToInt(clamped) ELSE clamped

(* One entry of offer.dimension_values through lines 290-315: the set of   *)
(* <<key, value>> pairs it contributes to normalized_dims (none when the   *)
(* key is dropped). *)
NormalizeDim(dimensions, key, raw) ==
    LET meta == DimMeta(dimensions, key)
        val0 == ExtractNumeric(raw)
        val1 == IF val0.t = "none" /\ meta # {}
                THEN LET target == (CHOOSE d \in meta : TRUE).targetValue
                     IN  IF target.t = "none" THEN Absent
                         ELSE Num(SafeFloatConvert(target))
                ELSE val0
    IN  IF val1.t = "none" THEN {}
        ELSE IF meta = {} THEN { <<key, val1>> }
        ELSE { <<key, Num(ClampAndRound(val1.v, CHOOSE d \in meta : TRUE))>> }

NormalizeDims(dimensions, dv) ==
    UNION { NormalizeDim(dimensions, p[1], p[2]) : p \in dv }

(* The scalar clamp without its upper bound. *)
ClampScore_NoUpperClamp(x, default) ==
    LET n == ExtractNumeric(x)
        v == IF n.t = "none" THEN default ELSE n.v
    IN  Num(Max(0, v))

(* Scalar clamp of lines 327-333 and 336-342, in tenths. *)
ClampScore(x, default) ==
    LET n == ExtractNumeric(x)
        v == IF n.t = "none" THEN default ELSE n.v
    IN  Num(Max(0, Min(10, v)))

(* str.lower() on the action strings of this model. *)
Lower(s) ==
    CASE s = "ACCEPT" -> "accept"
      [] s = "Continue" -> "continue"
      [] s = "Walk_Away" -> "walk_away"
      [] s = "Pause" -> "pause"
      [] s = "TERMINATE" -> "terminate"
      [] OTHER -> s

(* An action that is not a string and is truthy: the JSON number 7. *)
NumberAction == "<the number 7>"

(* Line 322: (resp.get("action") or "continue").lower() raises on a value  *)
(* that has no lower. *)
ActionRaises(a) == a = NumberAction

(* Action repair of lines 322-325; "" stands for a missing, empty or       *)
(* otherwise falsy action. *)
NormalizeAction(a) ==
    LET lower == Lower(IF a = "" THEN "continue" ELSE a)
    IN  IF lower \in AllowedActions THEN lower ELSE "continue"

(* A response as the loop stores it.  kind "nondict" is a value that is    *)
(* not a dict (a JSON list, number or string); kind "None" is no response. *)
(* offer.kind "none" is a missing or empty offer, "map" an offer whose      *)
(* dimension_values is a dict (or missing), "list" one whose               *)
(* dimension_values is a list, "str" an offer that is a string.            *)
Offer(okind, dv, confidence) ==
    [kind |-> okind, dv |-> dv, confidence |-> confidence]

Response(action, batna, thr, okind, dv) ==
    [kind |-> "dict", action |-> action, batna_assessment |-> batna,
     walk_away_threshold |-> thr, offer |-> Offer(okind, dv, Absent)]

WithConfidence(response, confidence) ==
    [response EXCEPT !.offer.confidence = confidence]

NoOffer == Offer("none", {}, Absent)

NonDict ==
    [kind |-> "nondict", action |-> "", batna_assessment |-> Absent,
     walk_away_threshold |-> Absent, offer |-> NoOffer]

NoneResponse ==
    [kind |-> "None", action |-> "", batna_assessment |-> Absent,
     walk_away_threshold |-> Absent, offer |-> NoOffer]

(* normalize_model_output raises before it changes anything: on a value   *)
(* that is not a dict (line 214), an offer that is not a dict (line 215),  *)
(* dimension_values that is not a dict (line 261). *)
NormalizeRaisesEarly(data) ==
    \/ data.kind = "nondict"
    \/ data.offer.kind \in {"str", "list"}

(* normalize_model_output raises at all: also on an action without lower   *)
(* (line 322). *)
NormalizeRaises(data) ==
    \/ NormalizeRaisesEarly(data)
    \/ (data.kind = "dict" /\ ActionRaises(data.action))

(* What normalize_model_output returns when it does not raise; None is     *)
(* taken as {}. *)
Normalized(data, dimensions) ==
    [kind |-> "dict",
     action |-> NormalizeAction(data.action),
     batna_assessment |-> ClampScore(data.batna_assessment, DefaultBatnaTenths),
     walk_away_threshold |->
         ClampScore(data.walk_away_threshold, DefaultThresholdTenths),
     offer |-> Offer("map", NormalizeDims(dimensions, data.offer.dv),
                     ClampScore(data.offer.confidence, DefaultConfidenceTenths))]

(* The response dict as it is left when line 322 raises: the offer has     *)
(* been replaced (lines 318-319), nothing else. *)
PartlyNormalized(data, dimensions) ==
    [data EXCEPT !.offer = Offer("map", NormalizeDims(dimensions, @.dv),
                                 @.confidence)]

(* normalize_model_output as _execute_single_round uses it (lines          *)
(* 1527-1534): an exception inside it is logged and the data is kept as    *)
(* it then is. *)
NormalizeModelOutput(data) ==
    IF NormalizeRaisesEarly(data) THEN data
    ELSE IF NormalizeRaises(data) THEN PartlyNormalized(data, Dimensions)
    ELSE Normalized(data, Dimensions)

----------------------------------------------------------------------------
(* What the agent run of one turn can produce (Runner.run, line 1456).     *)
(*   src "exception": the run raises (timeout, transport error).           *)
(*   src "model":     final_output is a NegotiationResponse.               *)
(*   src "dict":      final_output is a dict.                              *)
(*   src "string":    anything else, read as text.  len is the length of   *)
(*     the text left after lines 1476-1499 (content extraction, markdown   *)
(*     fence removal); full says whether json.loads accepts it; braceAt    *)
(*     is the greatest index i with text[i] = "}" such that json.loads     *)
(*     accepts text[:i+1] (0 when there is none); data is what the         *)
(*     accepted text holds.                                                *)

Raw(src, len, full, braceAt, data) ==
    [src |-> src, len |-> len, full |-> full, braceAt |-> braceAt, data |-> data]

Price(v) == { <<"Price", v>> }

(* Data that normalizes to a turn that goes on. *)
ContinueData ==
    { Response("continue", Num(5), Num(3), "map", Price(Num(1000))),
      Response("bogus", Absent, Absent, "map", Price(Text)),
      Response("", Num(5), Text, "map", Price(Num(1000))),
      Response("Continue", Num(3), Num(3), "map", Price(Num(2000))),
      Response("continue", Num(3), Num(3), "map", Price(Num(9999))) }

(* Data that normalizes to a turn that ends the session. *)
TerminalData ==
    { Response("accept", Num(5), Num(3), "none", {}),
      Response("accept", Num(5), Num(3), "map", Price(Num(1000))),
      Response("accept", Num(2), Num(3), "map", {}),
      Response("ACCEPT", Num(15), Num(-2), "map", Price(Num(100))),
      Response("terminate", Num(5), Num(3), "map", {}),
      Response("terminate", Num(2), Num(3), "map", Price(Num(1000))),
      Response("Walk_Away", Num(5), Num(3), "map", Price(Num(1000))),
      Response("pause", Num(5), Num(3), "map", {}),
      Response("continue", Num(2), Num(3), "map", Price(Num(1000))),
      Response("bogus", Num(2), Num(3), "map", {<<"Foo", Text>>}) }

(* Data on which normalize_model_output raises. *)
MalformedData ==
    { NonDict,
      Response("ACCEPT", Text, Num(3), "list", {}),
      Response("ACCEPT", Num(2), Num(3), "list", {}),
      Response(NumberAction, Num(2), Num(3), "map", Price(Num(9999))) }

(* What a NegotiationResponse can hold: pydantic has validated it. *)
ValidData ==
    { d \in ContinueData \cup TerminalData :
        /\ d.action \in AllowedActions
        /\ d.offer.kind = "map"
        /\ d.batna_assessment.t = "num" /\ d.batna_assessment.v \in 0..10
        /\ d.walk_away_threshold.t = "num" /\ d.walk_away_threshold.v \in 0..10
        /\ \A p \in d.offer.dv : p[2].t = "num" }

SomeData == Response("continue", Num(5), Num(3), "map", Price(Num(1000)))

StringOutputs ==
    { Raw("string", 20, TRUE, 0, d) : d \in {SomeData, NonDict} }
    \cup { Raw("string", 20, FALSE, 0, SomeData),
           Raw("string", LongResponseLen, FALSE, LongResponseLen - 10, SomeData),
           Raw("string", LongResponseLen + 1, FALSE, LongResponseLen - 10, SomeData),
           Raw("string", LongResponseLen + 1, FALSE,
               LongResponseLen + 1 - TruncationWindow, SomeData),
           Raw("string", LongResponseLen + 1, FALSE,
               LongResponseLen + 2 - TruncationWindow, SomeData),
           Raw("string", LongResponseLen + 1, FALSE, 0, SomeData) }

RawOutputs ==
    { Raw("exception", 0, FALSE, 0, NoneResponse) }
    \cup { Raw("model", 0, TRUE, 0, d) : d \in ValidData }
    \cup { Raw("dict", 0, TRUE, 0, d) :
              d \in ContinueData \cup TerminalData \cup (MalformedData \ {NonDict}) }
    \cup StringOutputs

(* The boundary repair of lines 1509-1522: i runs from len-1 down to       *)
(* max(0, len-500)+1 and the first i whose prefix parses is taken.         *)
TruncationFound(raw) ==
    /\ raw.len > LongResponseLen
    /\ raw.braceAt <= raw.len - 1
    /\ raw.braceAt > Max(0, raw.len - TruncationWindow)

(* _execute_single_round: the response data, or NoneResponse when an       *)
(* exception was caught (line 1538). *)
ExecuteSingleRound(raw) ==
    CASE raw.src = "exception" -> NoneResponse
      [] raw.src \in {"model", "dict"} -> NormalizeModelOutput(raw.data)
      [] OTHER ->
           IF raw.full \/ TruncationFound(raw)
           THEN NormalizeModelOutput(raw.data)
           ELSE NoneResponse

----------------------------------------------------------------------------
(* The helpers of the loop *)

(* The role chosen by the parity of the round instead of the turn. *)
RoleForTurn_ByRound(ti, user, opponent) ==
    IF ((ti \div 2) + 1) % 2 = 1 THEN user ELSE opponent

(* Lines 1306-1309: the role whose turn it is. *)
RoleForTurn(ti, user, opponent) ==
    IF ti % 2 = 0 THEN user ELSE opponent

(* The round counted in turns, as stored transcripts of the older format   *)
(* have it. *)
ExchangeNum_CountsTurns(ti) == ti + 1

(* Line 1302. *)
ExchangeNum(ti) == (ti \div 2) + 1

(* The loop condition counting turns as rounds. *)
LoopGuard_Turns(ti, mr) == ti < mr

(* Line 1301: the loop condition. *)
LoopGuard(ti, mr) == ti < mr * 2

(* dict.get(key, default) on a score: the default only when the key is     *)
(* absent. *)
GetScore(x, default) == IF x.t = "none" THEN Num(default) ELSE x

(* The BATNA check with <= in place of <. *)
DetermineOutcome_NonStrict(action, response_data) ==
    IF action = "accept" THEN DEAL_ACCEPTED
    ELSE IF action = "terminate" THEN TERMINATED
    ELSE IF action = "walk_away" THEN WALK_AWAY
    ELSE IF action = "pause" THEN PAUSED
    ELSE LET batna_score == GetScore(response_data.batna_assessment,
                                     DefaultBatnaTenths)
             walk_threshold == GetScore(response_data.walk_away_threshold,
                                        DefaultThresholdTenths)
         IN  IF batna_score.t # walk_threshold.t THEN "raised"
             ELSE IF batna_score.v <= walk_threshold.v THEN WALK_AWAY
             ELSE ERROR

(* _determine_outcome.  "raised" is the TypeError of comparing a string    *)
(* with a number; ERROR is the value that lets the loop go on.             *)
DetermineOutcome(action, response_data) ==
    IF action = "accept" THEN DEAL_ACCEPTED
    ELSE IF action = "terminate" THEN TERMINATED
    ELSE IF action = "walk_away" THEN WALK_AWAY
    ELSE IF action = "pause" THEN PAUSED
    ELSE LET batna_score == GetScore(response_data.batna_assessment,
                                     DefaultBatnaTenths)
             walk_threshold == GetScore(response_data.walk_away_threshold,
                                        DefaultThresholdTenths)
         IN  IF batna_score.t # walk_threshold.t THEN "raised"
             ELSE IF batna_score.v < walk_threshold.v THEN WALK_AWAY
             ELSE ERROR

(* The loop left on an accepted deal only. *)
BreaksLoop_AcceptOnly(outcome) == outcome = DEAL_ACCEPTED

(* Line 1347: the loop is left when the turn was classified terminal. *)
BreaksLoop(outcome) == outcome # ERROR

(* The convergence test taking a difference of exactly the threshold. *)
AnalyzeConvergence_Inclusive(current_offer, previous_offer) ==
    IF current_offer = {} \/ previous_offer = {} THEN FALSE
    ELSE LET prevOf(c) == (CHOOSE q \in previous_offer : q[1] = c[1])[2]
             comparable ==
                 { c \in current_offer :
                     /\ \E q \in previous_offer : q[1] = c[1]
                     /\ IsFloat(c[2])
                     /\ IsFloat(prevOf(c)) }
             converged ==
                 { c \in comparable :
                     100 * Abs(c[2].v - prevOf(c).v)
                        <= Abs(prevOf(c).v * ConvergenceThresholdPct) }
         IN  /\ Cardinality(comparable) # 0
             /\ 100 * Cardinality(converged)
                   >= MinConvergenceRatioPct * Cardinality(comparable)

(* analyze_convergence on two dimension_values maps.  A key counts when    *)
(* it is in both maps and float() takes both values. *)
AnalyzeConvergence(current_offer, previous_offer) ==
    IF current_offer = {} \/ previous_offer = {} THEN FALSE
    ELSE LET prevOf(c) == (CHOOSE q \in previous_offer : q[1] = c[1])[2]
             comparable ==
                 { c \in current_offer :
                     /\ \E q \in previous_offer : q[1] = c[1]
                     /\ IsFloat(c[2])
                     /\ IsFloat(prevOf(c)) }
             converged ==
                 { c \in comparable :
                     100 * Abs(c[2].v - prevOf(c).v)
                        < Abs(prevOf(c).v * ConvergenceThresholdPct) }
         IN  /\ Cardinality(comparable) # 0
             /\ 100 * Cardinality(converged)
                   >= MinConvergenceRatioPct * Cardinality(comparable)

(* The extension check comparing the role's own two last offers. *)
ShouldExtendNegotiation_OwnOffers(exchange_num, mr, res) ==
    IF exchange_num < mr \/ Len(res) < 3 \/ exchange_num >= ABSOLUTE_MAX_ROUNDS
    THEN FALSE
    ELSE AnalyzeConvergence(res[Len(res)].response.offer.dv,
                            res[Len(res) - 2].response.offer.dv)

(* _should_extend_negotiation; results already holds the turn just made. *)
ShouldExtendNegotiation(exchange_num, mr, res) ==
    IF exchange_num < mr \/ Len(res) < 2 \/ exchange_num >= ABSOLUTE_MAX_ROUNDS
    THEN FALSE
    ELSE AnalyzeConvergence(res[Len(res)].response.offer.dv,
                            res[Len(res) - 1].response.offer.dv)

(* The extension without the absolute cap. *)
ExtendedBudget_NoCap(exchange_num) == exchange_num + ExtensionRounds

(* Line 1353: the budget after an extension. *)
ExtendedBudget(exchange_num) ==
    Min(exchange_num + ExtensionRounds, ABSOLUTE_MAX_ROUNDS)

(* Lines 1357-1358: the outcome after the loop. *)
PostLoopOutcome(fo) == IF fo = ERROR THEN MAX_ROUNDS_REACHED ELSE fo

(* _normalize_round_metadata: turn is filled in when it is missing         *)
(* (setdefault), round is always recomputed from the position. *)
NormalizeRoundMetadata(res) ==
    [ idx \in 1..Len(res) |->
        [ res[idx] EXCEPT
            !.turn = IF @.t = "none" THEN Num(idx) ELSE @,
            !.round = ((idx - 1) \div 2) + 1 ] ]

RECURSIVE MaxRound(_, _)
MaxRound(res, n) ==
    IF n = 0 THEN 0 ELSE Max(res[n].round, MaxRound(res, n - 1))

(* _calculate_total_rounds *)
CalculateTotalRounds(res) ==
    IF res = <<>> THEN 0 ELSE MaxRound(res, Len(res))

(* not offer or not offer.get("dimension_values") *)
IsEmptyOffer(offer) == offer.kind = "none" \/ (offer.kind = "map" /\ offer.dv = {})

(* The fallback to the previous offer taken whatever the outcome. *)
FinalOffer_AnyOutcome(res, outcome) ==
    IF res = <<>> THEN NoOffer
    ELSE LET final_offer == res[Len(res)].response.offer
         IN  IF /\ IsEmptyOffer(final_offer)
                /\ Len(res) >= 2
                /\ ~IsEmptyOffer(res[Len(res) - 1].response.offer)
             THEN res[Len(res) - 1].response.offer
             ELSE final_offer

(* Lines 1617-1629 of _finalize_results. *)
FinalOffer(res, outcome) ==
    IF res = <<>> THEN NoOffer
    ELSE LET final_offer == res[Len(res)].response.offer
         IN  IF /\ outcome = DEAL_ACCEPTED
                /\ IsEmptyOffer(final_offer)
                /\ Len(res) >= 2
                /\ ~IsEmptyOffer(res[Len(res) - 1].response.offer)
             THEN res[Len(res) - 1].response.offer
             ELSE final_offer

(* Lines 1632-1645: the flattened transcript. *)
ConversationLog(res) ==
    [ i \in 1..Len(res) |->
        [ round |-> res[i].round, turn |-> res[i].turn, agent |-> res[i].agent,
          action |-> res[i].response.action,
          offer |-> res[i].response.offer,
          batna_assessment |->
              GetScore(res[i].response.batna_assessment, DefaultBatnaTenths),
          walk_away_threshold |->
              GetScore(res[i].response.walk_away_threshold,
                       DefaultThresholdTenths) ] ]

NoResult ==
    [status |-> "none", outcome |-> "", totalRounds |-> 0,
     finalOffer |-> NoOffer, conversationLog |-> <<>>]

(* _finalize_results as run_negotiation returns it (lines 176-187): a      *)
(* response that is not a dict makes it raise, and run_negotiation then    *)
(* returns an error object. *)
FinalizeResults(res, outcome) ==
    IF \E i \in 1..Len(res) : res[i].response.kind # "dict"
    THEN [NoResult EXCEPT !.status = "error"]
    ELSE [status |-> "ok", outcome |-> outcome,
          totalRounds |-> CalculateTotalRounds(res),
          finalOffer |-> FinalOffer(res, outcome),
          conversationLog |-> ConversationLog(res)]

(* The progress event left out for a turn that ends the session. *)
EmitRoundUpdate_NotOnLastTurn(ev, round_num, role, response_data, open) ==
    IF response_data.kind = "dict"
       /\ response_data.action \in {"accept", "terminate", "walk_away", "pause"}
    THEN ev
    ELSE Append(ev,
                [ round |-> round_num, agent |-> role,
                  action |-> IF response_data.action = "" THEN "continue"
                             ELSE response_data.action,
                  offer |-> response_data.offer,
                  printed |-> open /\ response_data.kind = "dict" ])

(* emit_round_update: one call, which prints the ROUND_UPDATE line unless  *)
(* building or printing it raises (the response has no get, the pipe is    *)
(* closed); the exception is caught inside and nothing is printed. *)
EmitRoundUpdate(ev, round_num, role, response_data, open) ==
    Append(ev,
           [ round |-> round_num, agent |-> role,
             action |-> IF response_data.action = "" THEN "continue"
                        ELSE response_data.action,
             offer |-> response_data.offer,
             printed |-> open /\ response_data.kind = "dict" ])

(* str.lower() on the counterpart kinds of this model. *)
LowerKind(s) ==
    CASE s = "Retailer" -> "retailer"
      [] s = "BUYER" -> "buyer"
      [] s = "Seller" -> "seller"
      [] s = "MANUFACTURER" -> "manufacturer"
      [] OTHER -> s

(* Lines 321 and 323: the kinds that are recognised (those written in      *)
(* ASCII). *)
BuyerKinds == {"retailer", "buyer"}
SellerKinds == {"manufacturer", "seller", "hersteller"}

(* The counterpart kinds tried; "" stands for a missing or empty kind. *)
KindInputs ==
    {"", "retailer", "Retailer", "buyer", "BUYER", "manufacturer",
     "MANUFACTURER", "seller", "Seller", "hersteller", "distributor",
     "customer"}

(* Lines 318-329: the role of the opponent. *)
ResolveOpponentRole(kind) ==
    LET opponent_kind == LowerKind(kind)
    IN  IF opponent_kind \in BuyerKinds THEN BUYER
        ELSE IF opponent_kind \in SellerKinds THEN SELLER
        ELSE BUYER

(* The role of the user left at its default of line 130. *)
ResolveUserRole_Default(opp) == SELLER

(* Line 331: the role of the user. *)
ResolveUserRole(opp) == IF opp = BUYER THEN SELLER ELSE BUYER

(* Lines 317-335 of _create_agents; warned says that the fallback of line  *)
(* 327 was logged. *)
ResolveRoles(kind) ==
    [ opponent_role |-> ResolveOpponentRole(kind),
      user_role |-> ResolveUserRole(ResolveOpponentRole(kind)),
      warned |-> LowerKind(kind) \notin BuyerKinds \cup SellerKinds ]

(* Prices are kept in cents, and a price that went through the adjustment  *)
(* of _calculate_opponent_target_price in thousandths of a cent. *)
PriceScale == 1000

(* MAX_PRICE_DEVIATION = 0.30, as thousandths. *)
MaxPriceDeviation == 300

(* The largest distance. *)
MaxDistance == 100

(* counterpartDistance as a number, a string or None. *)
ScalarDistance(x) == [kind |-> "scalar", gesamt |-> x, first |-> x]

(* counterpartDistance as a dict: the value under "gesamt" (Absent when    *)
(* the key is missing) and the first value of the dict. *)
DictDistance(gesamt, first) == [kind |-> "dict", gesamt |-> gesamt, first |-> first]

(* Lines 654-666: the distance read out of counterpartDistance.  A dict    *)
(* gives its "gesamt", or its first value when that is 0 or missing; a     *)
(* scalar goes through float(), None and what float() rejects giving 0. *)
ExtractDistance(data) ==
    IF data.kind = "dict"
    THEN LET gesamt == IF data.gesamt.t = "none" THEN 0 ELSE data.gesamt.v
         IN  IF gesamt = 0 THEN data.first.v ELSE gesamt
    ELSE IF IsFloat(data.gesamt) THEN data.gesamt.v ELSE 0

(* str.upper() on the roles of this model. *)
UpperRole(r) ==
    CASE r = "buyer" -> BUYER
      [] r = "seller" -> SELLER
      [] OTHER -> r

(* The adjustment with the distance taken as it comes. *)
CalculateOpponentTargetPrice_NoClamp(own_target_price, distance_data, role) ==
    LET distance == ExtractDistance(distance_data)
        deviation_factor == (distance * MaxPriceDeviation) \div MaxDistance
    IN  IF UpperRole(role) = BUYER
        THEN own_target_price * (PriceScale - deviation_factor)
        ELSE IF UpperRole(role) = SELLER
        THEN own_target_price * (PriceScale + deviation_factor)
        ELSE own_target_price * PriceScale

(* _calculate_opponent_target_price, lines 669-688: the price in           *)
(* thousandths of a cent. *)
CalculateOpponentTargetPrice(own_target_price, distance_data, role) ==
    LET distance == Max(0, Min(ExtractDistance(distance_data), MaxDistance))
        deviation_factor == (distance * MaxPriceDeviation) \div MaxDistance
    IN  IF UpperRole(role) = BUYER
        THEN own_target_price * (PriceScale - deviation_factor)
        ELSE IF UpperRole(role) = SELLER
        THEN own_target_price * (PriceScale + deviation_factor)
        ELSE own_target_price * PriceScale

(* A product of the negotiation: its name, target, minimum and maximum     *)
(* price in cents and its volume, each a number or Absent (the field is    *)
(* missing, None or empty). *)
Product(name, target, min_price, max_price, volume) ==
    [name |-> name, target |-> target, min_price |-> min_price,
     max_price |-> max_price, volume |-> volume]

(* Python truth of a scalar: None and 0 are false. *)
Truthy(x) == x.t # "none" /\ ~(x.t = "num" /\ x.v = 0)

(* Truth of counterpartDistance: a dict is true when it is not empty. *)
DistanceGiven(data) ==
    IF data.kind = "dict" THEN data.first.t # "none" ELSE Truthy(data.gesamt)

(* _format_price on a price in thousandths of a cent: the text shows the   *)
(* price rounded to the cent (a tie going to the even cent), or a dash     *)
(* when there is none. *)
FormatPrice(x) ==
    IF x.t = "none" THEN [shown |-> "dash", cents |-> 0]
    ELSE LET q == x.v \div PriceScale
             r == x.v % PriceScale
             half == PriceScale \div 2
         IN  [shown |-> "price",
              cents |-> IF r < half THEN q
                        ELSE IF r > half THEN q + 1
                        ELSE IF q % 2 = 0 THEN q ELSE q + 1]

(* A price in cents as a price in thousandths of a cent. *)
Exact(x) == IF x.t = "none" THEN x ELSE Num(x.v * PriceScale)

(* Lines 717-727: the target price a view shows, adjusted for the          *)
(* opponent when a target and a distance are there. *)
ViewTarget(product, role, use_self_prompt, distance_data) ==
    IF ~use_self_prompt /\ Truthy(product.target) /\ DistanceGiven(distance_data)
    THEN Num(CalculateOpponentTargetPrice(product.target.v, distance_data, role))
    ELSE Exact(product.target)

(* Lines 731-735: the guardrail line of the self-facing view (a or b). *)
GuardrailLine(product, role) ==
    IF role = BUYER
    THEN [label |-> "Maximalpreis",
          price |-> FormatPrice(Exact(IF Truthy(product.max_price)
                                      THEN product.max_price
                                      ELSE product.target))]
    ELSE [label |-> "Minimalpreis",
          price |-> FormatPrice(Exact(IF Truthy(product.min_price)
                                      THEN product.min_price
                                      ELSE product.target))]

(* Lines 697-703: the four fixed texts given when there is no product. *)
NoProductsTexts ==
    [ names |-> "Keine Produkte definiert.",
      zielpreise |-> "Keine Zielpreise vorhanden.",
      preisgrenzen |-> "Keine Preisgrenzen vorhanden.",
      volumes |-> "Keine Volumenangaben vorhanden." ]

(* The text of line 742. *)
GuardrailsWithheld == "Keine Min/Max-Werte verfuegbar"

(* The pricing strings with the guardrail lines built for every view. *)
BuildPricingStrings_GuardrailsForAll(products, role, use_self_prompt, distance_data) ==
    IF products = <<>> THEN NoProductsTexts ELSE
    [ names |-> [i \in 1..Len(products) |-> products[i].name],
      zielpreise |->
          [i \in 1..Len(products) |->
              FormatPrice(ViewTarget(products[i], role, use_self_prompt,
                                     distance_data))],
      preisgrenzen |->
          [i \in 1..Len(products) |-> GuardrailLine(products[i], role)],
      volumes |-> [i \in 1..Len(products) |-> products[i].volume] ]

(* _build_pricing_strings: the four texts, line by line.  The              *)
(* opponent-facing view (use_self_prompt false) gets one fixed text for    *)
(* preisgrenzen; without products every text is a fixed one. *)
BuildPricingStrings(products, role, use_self_prompt, distance_data) ==
    IF products = <<>> THEN NoProductsTexts ELSE
    [ names |-> [i \in 1..Len(products) |-> products[i].name],
      zielpreise |->
          [i \in 1..Len(products) |->
              FormatPrice(ViewTarget(products[i], role, use_self_prompt,
                                     distance_data))],
      preisgrenzen |->
          IF use_self_prompt
          THEN [i \in 1..Len(products) |-> GuardrailLine(products[i], role)]
          ELSE GuardrailsWithheld,
      volumes |-> [i \in 1..Len(products) |-> products[i].volume] ]

----------------------------------------------------------------------------
(* Product keys.  A string is a sequence of characters; a character that   *)
(* is not ASCII is written as a name in angle brackets. *)

UpperLetters ==
    <<"A", "B", "C", "D", "E", "F", "G", "H", "I", "J", "K", "L", "M", "N",
      "O", "P", "Q", "R", "S", "T", "U", "V", "W", "X", "Y", "Z">>

LowerLetters ==
    <<"a", "b", "c", "d", "e", "f", "g", "h", "i", "j", "k", "l", "m", "n",
      "o", "p", "q", "r", "s", "t", "u", "v", "w", "x", "y", "z">>

Digits == {"0", "1", "2", "3", "4", "5", "6", "7", "8", "9"}

Whitespace == {" ", "<tab>"}

Range(f) == { f[i] : i \in DOMAIN f }

(* str.lower() on one character. *)
LowerChar(c) ==
    IF c \in Range(UpperLetters)
    THEN LowerLetters[CHOOSE i \in DOMAIN UpperLetters : UpperLetters[i] = c]
    ELSE CASE c = "<A-umlaut>" -> "<a-umlaut>"
           [] c = "<O-umlaut>" -> "<o-umlaut>"
           [] c = "<U-umlaut>" -> "<u-umlaut>"
           [] c = "<E-acute>" -> "<e-acute>"
           [] OTHER -> c

LowerStr(s) == [i \in DOMAIN s |-> LowerChar(s[i])]

(* The replacements of umlauts and sharp s, one character. *)
ReplaceUmlaut(c) ==
    CASE c = "<a-umlaut>" -> <<"a", "e">>
      [] c = "<o-umlaut>" -> <<"o", "e">>
      [] c = "<u-umlaut>" -> <<"u", "e">>
      [] c = "<sharp-s>" -> <<"s", "s">>
      [] OTHER -> <<c>>

RECURSIVE ReplaceUmlauts(_)
ReplaceUmlauts(s) ==
    IF s = <<>> THEN <<>>
    ELSE ReplaceUmlaut(Head(s)) \o ReplaceUmlauts(Tail(s))

(* unicodedata.normalize("NFD", .) with the marks (category Mn) dropped,   *)
(* one character. *)
StripMark(c) ==
    CASE c = "<e-acute>" -> "e"
      [] c = "<E-acute>" -> "E"
      [] c = "<A-umlaut>" -> "A"
      [] c = "<O-umlaut>" -> "O"
      [] c = "<U-umlaut>" -> "U"
      [] OTHER -> c

StripMarks(s) == [i \in DOMAIN s |-> StripMark(s[i])]

(* re.sub of every character outside keep by nothing. *)
KeepOnly(s, keep) == LET Kept(c) == c \in keep IN SelectSeq(s, Kept)

(* re.sub of every run of characters of seps by one underscore. *)
RECURSIVE CollapseRuns(_, _, _)
CollapseRuns(s, seps, inRun) ==
    IF s = <<>> THEN <<>>
    ELSE IF Head(s) \in seps
    THEN (IF inRun THEN <<>> ELSE <<"_">>) \o CollapseRuns(Tail(s), seps, TRUE)
    ELSE <<Head(s)>> \o CollapseRuns(Tail(s), seps, FALSE)

(* str.strip("_") *)
RECURSIVE StripUnderscores(_)
StripUnderscores(s) ==
    IF s = <<>> THEN <<>>
    ELSE IF Head(s) = "_" THEN StripUnderscores(Tail(s))
    ELSE IF s[Len(s)] = "_" THEN StripUnderscores(SubSeq(s, 1, Len(s) - 1))
    ELSE s

(* The steps the two _slugify_product_key share; they differ in the two    *)
(* character classes of their regular expressions. *)
SlugifyWith(value, keep, seps) ==
    StripUnderscores(
        CollapseRuns(
            KeepOnly(StripMarks(ReplaceUmlauts(LowerStr(value))), keep),
            seps, FALSE))

(* negotiation_utils._slugify_product_key: the classes [^a-z0-9\s_-] and   *)
(* [\s_-], \s being white space. *)
SlugifyProductKey(value) ==
    SlugifyWith(value,
                Range(LowerLetters) \cup Digits \cup Whitespace \cup {"_", "-"},
                Whitespace \cup {"_", "-"})

(* NegotiationService._slugify_product_key: its patterns are raw strings   *)
(* with a doubled backslash, so the classes hold a backslash and the       *)
(* letter s in place of white space. *)
ServiceSlugifyProductKey(value) ==
    SlugifyWith(value,
                Range(LowerLetters) \cup Digits \cup {"\\", "_", "-"},
                {"\\", "s", "_", "-"})

(* A product as the key helpers read it: its name and the product_key it   *)
(* sets itself (<<>> when it sets none). *)
KeyedProduct(name, product_key) == [name |-> name, product_key |-> product_key]

(* _build_product_key_fields, line 841: the key shown in the prompt. *)
PromptProductKey(product) ==
    IF product.product_key # <<>> THEN product.product_key
    ELSE ServiceSlugifyProductKey(product.name)

(* Lines 243-247: the key normalize_model_output takes as the right one. *)
CorrectKey(product) ==
    IF product.product_key # <<>> THEN product.product_key
    ELSE SlugifyProductKey(product.name)

(* str.replace(c, '') *)
Without(s, c) == LET Other(x) == x # c IN SelectSeq(s, Other)

(* Lines 250-255: the entries one product writes into product_key_map, in  *)
(* the order they are written, as <<key, value>>. *)
ProductKeyEntries(product) ==
    LET correct_key == CorrectKey(product)
    IN  << <<correct_key, correct_key>>,
           <<Without(correct_key, "_"), correct_key>>,
           <<LowerStr(correct_key), correct_key>>,
           <<Without(LowerStr(product.name), " "), correct_key>> >>

(* Lines 232-257: product_key_map as the list of its writes; a product     *)
(* without a name writes nothing. *)
RECURSIVE ProductKeyWrites(_)
ProductKeyWrites(products) ==
    IF products = <<>> THEN <<>>
    ELSE (IF Head(products).name = <<>> THEN <<>>
          ELSE ProductKeyEntries(Head(products)))
         \o ProductKeyWrites(Tail(products))

MapKeys(writes) == { writes[i][1] : i \in DOMAIN writes }

(* product_key_map[key]: the last write under that key. *)
MapGet(writes, key) ==
    LET last == CHOOSE i \in DOMAIN writes :
                    /\ writes[i][1] = key
                    /\ \A j \in DOMAIN writes : writes[j][1] = key => j <= i
    IN  writes[last][2]

MapValues(writes) == { MapGet(writes, k) : k \in MapKeys(writes) }

(* The least number of characters a prefix or a contained key must have. *)
MinOverlap == 6

(* The greatest difference of lengths under which characters are counted. *)
MaxLengthDifference == 3

(* The least share of matching characters, in percent. *)
MinSimilarityPct == 70

(* a in b, on strings. *)
Contains(b, a) ==
    \E i \in 0..(Len(b) - Len(a)) : SubSeq(b, i + 1, i + Len(a)) = a

(* _is_similar_product_key with min_overlap = 6. *)
IsSimilarProductKey(key1, key2) ==
    IF key1 = <<>> \/ key2 = <<>> THEN FALSE
    ELSE LET norm1 == LowerStr(Without(key1, "_"))
             norm2 == LowerStr(Without(key2, "_"))
             long == Len(norm1) >= MinOverlap /\ Len(norm2) >= MinOverlap
             max_len == Max(Len(norm1), Len(norm2))
             min_len == Min(Len(norm1), Len(norm2))
             matches == Cardinality({ i \in 1..min_len : norm1[i] = norm2[i] })
         IN  \/ norm1 = norm2
             \/ long /\ SubSeq(norm1, 1, MinOverlap) = SubSeq(norm2, 1, MinOverlap)
             \/ long /\ (Contains(norm2, norm1) \/ Contains(norm1, norm2))
             \/ /\ norm1 # <<>> /\ norm2 # <<>>
                /\ max_len - min_len <= MaxLengthDifference
                /\ 100 * matches >= MinSimilarityPct * max_len

(* Lines 263-288: the keys one raw key can be corrected to.  The similar   *)
(* keys are tried in the order of a set of strings, which differs from run *)
(* to run, and the first that fits is taken: each of them is possible. *)
ReconcileKey(key, products) ==
    LET writes == ProductKeyWrites(products)
        normalized_key == SlugifyProductKey(key)
        similar == { c \in MapValues(writes) :
                       IsSimilarProductKey(normalized_key, c) }
    IN  IF writes = <<>> THEN {key}
        ELSE IF key \in MapKeys(writes) THEN {MapGet(writes, key)}
        ELSE IF normalized_key \in MapKeys(writes)
        THEN {MapGet(writes, normalized_key)}
        ELSE IF similar # {} THEN similar
        ELSE {key}

----------------------------------------------------------------------------
(* What an agent is given on its turn.  Runner.run(agent, message,         *)
(* session=session) gives the agent its instructions, the items the        *)
(* session holds and the message, and then stores the message and the      *)
(* agent's final output in the session ("Session automatically tracks      *)
(* conversation history across rounds", line 1284; "the full dialogue      *)
(* already lives in the SQLite session", lines 1051-1052).  One session    *)
(* is made for the negotiation (line 1299) and passed on every turn, of    *)
(* either role (line 1323). *)

(* A NegotiationResponse as far as the turn context reads it. *)
AgentOutput(message, action, dv, internal_analysis) ==
    [message |-> message, action |-> action, dv |-> dv,
     internal_analysis |-> internal_analysis]

(* _build_round_message: the role label and the round. *)
BuildRoundMessage(role, round_num) ==
    [label |-> IF role = BUYER THEN "Kaeufer" ELSE "Verkaeufer",
     round |-> round_num]

LastOf(seq) == seq[Len(seq)]

(* _format_conversation_history: the count, and round, turn, agent and     *)
(* action of the last two records. *)
FormatConversationHistory(res) ==
    IF res = <<>> THEN <<>>
    ELSE LET recent == IF Len(res) >= 2 THEN SubSeq(res, Len(res) - 1, Len(res))
                       ELSE res
         IN  << Len(res),
                [ i \in DOMAIN recent |->
                    << recent[i].round, recent[i].turn, recent[i].agent,
                       recent[i].response.action >> ] >>

(* _extract_observed_behavior: the concessions between the last two        *)
(* offers of the other side, or its last three actions. *)
ExtractObservedBehavior(opponent_rounds) ==
    LET n == Len(opponent_rounds)
        last_offer == opponent_rounds[n].response.dv
        prev_offer == opponent_rounds[n - 1].response.dv
        actions == [ i \in 1..Min(n, 3) |->
                       opponent_rounds[n - Min(n, 3) + i].response.action ]
    IN  IF n = 0 THEN [kind |-> "none", actions |-> <<>>, concessions |-> {}]
        ELSE IF n >= 2 /\ last_offer # {} /\ prev_offer # {}
        THEN [kind |-> "offers", actions |-> <<>>,
              concessions |->
                  { <<c[1], q[2], c[2]>> :
                      <<c, q>> \in { x \in last_offer \X prev_offer :
                                       x[1][1] = x[2][1] /\ x[1][2] # x[2][2] } }]
        ELSE [kind |-> "actions", actions |-> actions, concessions |-> {}]

(* _build_dynamic_prompt_variables: what the instructions of the turn are  *)
(* compiled from.  The outputs of this model carry no bdi_state, so the    *)
(* beliefs are empty. *)
BuildDynamicPromptVariables(role, res, exchange_num, budget) ==
    LET Mine(r) == r.agent = role
        Theirs(r) == r.agent # role
        my_rounds == SelectSeq(res, Mine)
        opponent_rounds == SelectSeq(res, Theirs)
    IN  [ current_round |-> exchange_num,
          max_rounds |-> budget,
          previous_rounds |-> FormatConversationHistory(res),
          current_round_message |->
              IF opponent_rounds = <<>> THEN "Noch keine Nachricht empfangen."
              ELSE LastOf(opponent_rounds).response.message,
          opponent_last_offer |->
              IF opponent_rounds = <<>> THEN {}
              ELSE LastOf(opponent_rounds).response.dv,
          self_last_offer |->
              IF my_rounds = <<>> THEN {} ELSE LastOf(my_rounds).response.dv,
          last_round_intentions |->
              IF my_rounds = <<>> THEN "Noch keine Intentionen" ELSE "",
          observed_behaviour |-> ExtractObservedBehavior(opponent_rounds) ]

(* A run of the loop as far as the agents' inputs go: the transcript, the  *)
(* items of the session, and what each turn's agent was given. *)
RunStart == [results |-> <<>>, session |-> <<>>, inputs |-> <<>>]

(* One pass of the loop body, lines 1302-1338 with lines 1445-1456 of      *)
(* _execute_single_round, for an agent that answers with output. *)
ExecuteTurn(run, output, user, opponent, budget) ==
    LET ti == Len(run.results)
        role == RoleForTurn(ti, user, opponent)
        exchange_num == ExchangeNum(ti)
        message == [role |-> "user",
                    content |-> BuildRoundMessage(role, exchange_num)]
    IN  [ results |-> Append(run.results,
                             [round |-> exchange_num, turn |-> ti + 1,
                              agent |-> role, response |-> output]),
          session |-> run.session
                      \o << message,
                            [role |-> "assistant", content |-> output] >>,
          inputs |-> Append(run.inputs,
                            [ agent |-> role,
                              instructions |->
                                  BuildDynamicPromptVariables(
                                      role, run.results, exchange_num, budget),
                              items |-> Append(run.session, message) ]) ]

(* No helper function is under evaluation during a session. *)
NoFn ==
    [op |-> "none", arg |-> <<>>, out |-> <<>>, applied |-> FALSE,
     again |-> <<>>, reapplied |-> FALSE]

----------------------------------------------------------------------------
(* Sessions *)

(* The round budgets tried: small ones, and ones around the absolute       *)
(* maximum. *)
SmallBudgets == 0..MaxRounds
LargeBudgets == (ABSOLUTE_MAX_ROUNDS - 2)..(ABSOLUTE_MAX_ROUNDS + 1)

(* The lengths of the pre-seeded transcript tried with a budget: a fresh   *)
(* or barely started session, or one resumed in its last budgeted round.   *)
SeedLens(budget) ==
    IF budget \in SmallBudgets THEN 0..MaxSeedTurns ELSE {2 * (budget - 1)}

(* The formats a stored transcript comes in: "current" as the loop writes   *)
(* it; "legacy" where round counts turns and turn is not stored; "stale"   *)
(* where round counts turns and turn is stored 0-based. *)
SeedFormats == {"current", "legacy", "stale"}

(* A stored transcript of k turns in which both sides went on.  Short       *)
(* transcripts hold turns that made no offer. *)
SeedTranscript(k, fmt, user, opponent) ==
    [ p \in 1..k |->
        [ round |-> IF fmt = "current" THEN ((p - 1) \div 2) + 1 ELSE p,
          turn |-> CASE fmt = "current" -> Num(p)
                     [] fmt = "legacy" -> Absent
                     [] OTHER -> Num(p - 1),
          agent |-> IF p % 2 = 1 THEN user ELSE opponent,
          response |-> Response("continue", Num(5), Num(3), "map",
                                IF k <= MaxSeedTurns THEN {}
                                ELSE { <<"Price", Num(1000)>> }) ] ]

(* How the session that wrote the stored transcript ended: its last turn   *)
(* went on (the session was cut short), or it accepted the deal. *)
SeedEndings(k, fmt) ==
    IF k >= 1 /\ fmt = "current" THEN {"continue", "accept"} ELSE {"continue"}

(* The stored transcript with the action of its last turn. *)
EndedTranscript(seed, action) ==
    IF seed = <<>> THEN seed
    ELSE [seed EXCEPT ![Len(seed)].response.action = action]

NoExt == [evaluated |-> FALSE, fired |-> FALSE, round |-> 0, before |-> 0]

(* NegotiationService.__init__, _create_agents and                         *)
(* _load_existing_conversation: the session as the rounds find it. *)
Init ==
    \E budget \in SmallBudgets \cup LargeBudgets,
       roles \in { <<ResolveRoles(kind).user_role,
                      ResolveRoles(kind).opponent_role>> : kind \in KindInputs },
       fmt \in SeedFormats :
      \E k \in SeedLens(budget) : \E ending \in SeedEndings(k, fmt) :
        /\ pc = "start"
        /\ args_max_rounds = budget
        /\ user_role = roles[1]
        /\ opponent_role = roles[2]
        /\ results = EndedTranscript(SeedTranscript(k, fmt, roles[1], roles[2]),
                                     ending)
        /\ turn_index = 0
        /\ max_rounds = 0
        /\ final_outcome = ERROR
        /\ final_result = NoResult
        /\ seed_len = k
        /\ invoked = <<>>
        /\ end_cause = "none"
        /\ last_class = "none"
        /\ ext = NoExt
        /\ stop_requested = FALSE
        /\ stdout_open = TRUE
        /\ events = <<>>
        /\ fn = NoFn

(* Lines 1287-1301: load, renumber, and enter the loop; a transcript that  *)
(* already fills the budget goes straight to the end (lines 1356-1379).    *)
Start ==
    /\ pc = "start"
    /\ LET res == NormalizeRoundMetadata(results)
           ti == Len(res)
       IN  /\ results' = res
           /\ turn_index' = ti
           /\ max_rounds' = args_max_rounds
           /\ IF LoopGuard(ti, args_max_rounds)
              THEN /\ pc' = "loop"
                   /\ final_outcome' = ERROR
                   /\ final_result' = NoResult
              ELSE /\ pc' = "done"
                   /\ final_outcome' = PostLoopOutcome(ERROR)
                   /\ final_result' = FinalizeResults(res, PostLoopOutcome(ERROR))
    /\ UNCHANGED <<args_max_rounds, user_role, opponent_role, seed_len,
                   invoked, end_cause, last_class, ext, stop_requested,
                   stdout_open, events, fn>>

(* The agent of the next turn may be invoked. *)
TurnEnabled ==
    /\ pc = "loop"
    /\ Len(invoked) < MaxNewTurns

CurrentRole == RoleForTurn(turn_index, user_role, opponent_role)

(* Lines 1331-1338: the transcript with the turn appended. *)
Recorded(response) ==
    Append(results,
           [ round |-> ExchangeNum(turn_index),
             turn |-> Num(turn_index + 1),
             agent |-> CurrentRole,
             response |-> response ])

(* Lines 1344-1345; "raised" when the response has no get, or when         *)
(* _determine_outcome raises. *)
Classify(response) ==
    IF response.kind # "dict" THEN "raised"
    ELSE DetermineOutcome(IF response.action = "" THEN "continue"
                          ELSE response.action,
                          response)

(* A failed turn that is tried again: the loop is not left. *)
TurnFail_Retry(raw) ==
    /\ TurnEnabled
    /\ ExecuteSingleRound(raw).kind = "None"
    /\ invoked' = Append(invoked, <<turn_index, CurrentRole>>)
    /\ end_cause' = IF raw.src = "exception" THEN "invocation" ELSE "shape"
    /\ last_class' = "none"
    /\ ext' = NoExt
    /\ UNCHANGED <<pc, final_outcome, final_result, args_max_rounds, user_role,
                   opponent_role, results, turn_index, max_rounds, seed_len,
                   stop_requested, stdout_open, events, fn>>

(* Lines 1327-1329, then 1356-1379: _execute_single_round returned         *)
(* nothing; the loop is left and nothing is recorded. *)
TurnFail(raw) ==
    /\ TurnEnabled
    /\ ExecuteSingleRound(raw).kind = "None"
    /\ invoked' = Append(invoked, <<turn_index, CurrentRole>>)
    /\ end_cause' = IF raw.src = "exception" THEN "invocation" ELSE "shape"
    /\ pc' = "done"
    /\ final_outcome' = PostLoopOutcome(final_outcome)
    /\ final_result' = FinalizeResults(results, PostLoopOutcome(final_outcome))
    /\ last_class' = "none"
    /\ ext' = NoExt
    /\ UNCHANGED <<args_max_rounds, user_role, opponent_role, results,
                   turn_index, max_rounds, seed_len, stop_requested,
                   stdout_open, events, fn>>

(* Lines 1331-1345, then 1363-1379: the turn is recorded, and reading or   *)
(* classifying it raises inside the loop. *)
TurnRaise(raw) ==
    /\ TurnEnabled
    /\ LET response == ExecuteSingleRound(raw)
       IN  /\ response.kind # "None"
           /\ Classify(response) = "raised"
           /\ results' = Recorded(response)
           /\ events' = EmitRoundUpdate(events, ExchangeNum(turn_index),
                                        CurrentRole, response, stdout_open)
           /\ final_result' = FinalizeResults(Recorded(response), ERROR)
    /\ invoked' = Append(invoked, <<turn_index, CurrentRole>>)
    /\ turn_index' = turn_index + 1
    /\ end_cause' = "loop_exception"
    /\ pc' = "done"
    /\ final_outcome' = ERROR
    /\ last_class' = "raised"
    /\ ext' = NoExt
    /\ UNCHANGED <<args_max_rounds, user_role, opponent_role, max_rounds,
                   seed_len, stop_requested, stdout_open, fn>>

(* Lines 1331-1349, then 1356-1379: the turn is recorded and classified    *)
(* terminal; the loop is left. *)
TurnBreak(raw) ==
    /\ TurnEnabled
    /\ LET response == ExecuteSingleRound(raw)
           outcome == Classify(response)
       IN  /\ response.kind # "None"
           /\ outcome # "raised"
           /\ BreaksLoop(outcome)
           /\ results' = Recorded(response)
           /\ events' = EmitRoundUpdate(events, ExchangeNum(turn_index),
                                        CurrentRole, response, stdout_open)
           /\ final_outcome' = PostLoopOutcome(outcome)
           /\ final_result' = FinalizeResults(Recorded(response),
                                              PostLoopOutcome(outcome))
           /\ last_class' = outcome
    /\ invoked' = Append(invoked, <<turn_index, CurrentRole>>)
    /\ turn_index' = turn_index + 1
    /\ pc' = "done"
    /\ ext' = NoExt
    /\ UNCHANGED <<args_max_rounds, user_role, opponent_role, max_rounds,
                   seed_len, end_cause, stop_requested, stdout_open, fn>>

(* Lines 1331-1354: the turn is recorded and the session goes on; the      *)
(* budget is extended when _should_extend_negotiation says so; when the    *)
(* loop condition then fails the session ends (lines 1356-1379). *)
TurnContinue(raw) ==
    /\ TurnEnabled
    /\ LET response == ExecuteSingleRound(raw)
           outcome == Classify(response)
           res == Recorded(response)
           exchange_num == ExchangeNum(turn_index)
           extend == ShouldExtendNegotiation(exchange_num, max_rounds, res)
           mr == IF extend THEN ExtendedBudget(exchange_num) ELSE max_rounds
       IN  /\ response.kind # "None"
           /\ outcome # "raised"
           /\ ~BreaksLoop(outcome)
           /\ results' = res
           /\ events' = EmitRoundUpdate(events, exchange_num, CurrentRole,
                                        response, stdout_open)
           /\ last_class' = outcome
           /\ max_rounds' = mr
           /\ ext' = [evaluated |-> TRUE, fired |-> extend,
                      round |-> exchange_num, before |-> max_rounds]
           /\ IF LoopGuard(turn_index + 1, mr)
              THEN /\ pc' = "loop"
                   /\ final_outcome' = outcome
                   /\ final_result' = NoResult
              ELSE /\ pc' = "done"
                   /\ final_outcome' = PostLoopOutcome(outcome)
                   /\ final_result' = FinalizeResults(res, PostLoopOutcome(outcome))
    /\ invoked' = Append(invoked, <<turn_index, CurrentRole>>)
    /\ turn_index' = turn_index + 1
    /\ UNCHANGED <<args_max_rounds, user_role, opponent_role, seed_len,
                   end_cause, stop_requested, stdout_open, fn>>

(* The environment asks for the session to stop.  Nothing in lines         *)
(* 1301-1329 reads such a request. *)
RequestStop ==
    /\ pc = "loop"
    /\ ~stop_requested
    /\ stop_requested' = TRUE
    /\ UNCHANGED <<pc, args_max_rounds, user_role, opponent_role, results,
                   turn_index, max_rounds, final_outcome, final_result,
                   seed_len, invoked, end_cause, last_class, ext, stdout_open,
                   events, fn>>

(* The reader of the ROUND_UPDATE lines goes away: print raises from now   *)
(* on. *)
StdoutCloses ==
    /\ pc = "loop"
    /\ stdout_open
    /\ stdout_open' = FALSE
    /\ UNCHANGED <<pc, args_max_rounds, user_role, opponent_role, results,
                   turn_index, max_rounds, final_outcome, final_result,
                   seed_len, invoked, end_cause, last_class, ext,
                   stop_requested, events, fn>>

Next ==
    \/ Start
    \/ RequestStop
    \/ StdoutCloses
    \/ \E raw \in RawOutputs : TurnFail(raw)
    \/ \E raw \in RawOutputs : TurnRaise(raw)
    \/ \E raw \in RawOutputs : TurnBreak(raw)
    \/ \E raw \in RawOutputs : TurnContinue(raw)

Spec == Init /\ [][Next]_vars

(* One turn of the loop, whatever comes of it. *)
TakeTurn ==
    \/ \E raw \in RawOutputs : TurnFail(raw)
    \/ \E raw \in RawOutputs : TurnRaise(raw)
    \/ \E raw \in RawOutputs : TurnBreak(raw)
    \/ \E raw \in RawOutputs : TurnContinue(raw)

(* The session with its scheduling: the rounds are awaited to the end      *)
(* (line 176), and every agent call returns or raises, at the latest when  *)
(* the request times out (line 297). *)
LiveSpec == Spec /\ WF_vars(Start) /\ WF_vars(TakeTurn)

----------------------------------------------------------------------------
(* The helper functions on their own.  No session runs: the variables of   *)
(* the session keep the values of SessionOff, and fn holds one call: the   *)
(* function (op), its arguments (arg) and, once it has been applied, what  *)
(* it gave (out); again is what it gave when it was applied once more, to  *)
(* what it had returned. *)

session == <<pc, args_max_rounds, user_role, opponent_role, results,
             turn_index, max_rounds, final_outcome, final_result, seed_len,
             invoked, end_cause, last_class, ext, stop_requested,
             stdout_open, events>>

SessionOff ==
    /\ pc = "off"
    /\ args_max_rounds = 0
    /\ user_role = SELLER
    /\ opponent_role = BUYER
    /\ results = <<>>
    /\ turn_index = 0
    /\ max_rounds = 0
    /\ final_outcome = ERROR
    /\ final_result = NoResult
    /\ seed_len = 0
    /\ invoked = <<>>
    /\ end_cause = "none"
    /\ last_class = "none"
    /\ ext = NoExt
    /\ stop_requested = FALSE
    /\ stdout_open = TRUE
    /\ events = <<>>

Call(op, arg) ==
    [op |-> op, arg |-> arg, out |-> <<>>, applied |-> FALSE,
     again |-> <<>>, reapplied |-> FALSE]

(* The actions a response is tried with. *)
ActionInputs ==
    {"", "accept", "ACCEPT", "continue", "Continue", "walk_away", "Walk_Away",
     "pause", "Pause", "terminate", "TERMINATE", "bogus", NumberAction}

(* The scores a response is tried with: -0.2, 0, 0.3, 1, 1.5 as numbers,   *)
(* "0.7", "about 1.2", "high", and none. *)
ScoreInputs ==
    {Absent, Text, NumText(7), MixText(12), Num(-2), Num(0), Num(3), Num(10),
     Num(15)}

(* The registries tried: the one of the session; bounds that are not       *)
(* integers (10.5 to 20.6), with a unit that is rounded and with one that  *)
(* is not; a bound or the target missing; no entry at all. *)
RegistryInputs ==
    { Dimensions,
      { Dim("Price", Num(105), Num(206), Absent, "eur") },
      { Dim("Price", Num(105), Num(206), Num(150), "kg") },
      { Dim("Price", Absent, Num(206), Num(150), "") },
      { Dim("Price", Num(105), Absent, Absent, "") },
      {} }

(* The values a dimension is tried with: 3, 12.5, 13.5, 15.2, 99 and 100   *)
(* as numbers, "Net 30", "abc", and -4. *)
ValueInputs ==
    {Num(30), Num(125), Num(135), Num(152), Num(990), Num(1000), MixText(300),
     Text, Num(-40)}

DimensionValuesInputs ==
    { {} }
    \cup { Price(v) : v \in ValueInputs }
    \cup { Price(v) \cup { <<"Foo", w>> } : v \in {Num(152), Text},
                                             w \in {Num(70), Text} }

NormalizeInputs ==
    { [data |-> WithConfidence(Response(a, b, t, "map", Price(Num(1000))), c),
       dimensions |-> Dimensions] :
         a \in {"", "Pause"}, b \in ScoreInputs, t \in ScoreInputs,
         c \in ScoreInputs }
    \cup { [data |-> Response(a, Num(5), Num(3), "map", Price(Num(1000))),
            dimensions |-> Dimensions] : a \in ActionInputs }
    \cup { [data |-> Response("continue", Num(5), Num(3), "map", dv),
            dimensions |-> r] :
              dv \in DimensionValuesInputs, r \in RegistryInputs }
    \cup { [data |-> WithConfidence(Response("continue", Num(5), Num(3), "map",
                                              dv), Num(5)),
            dimensions |-> r] :
              dv \in DimensionValuesInputs, r \in RegistryInputs }
    \cup { [data |-> d, dimensions |-> Dimensions] :
              d \in { NonDict, NoneResponse,
                      Response("accept", Num(5), Num(3), "none", {}),
                      Response("accept", Num(5), Num(3), "str", {}),
                      Response("accept", Num(5), Num(3), "list", {}) } }

(* normalize_model_output called on its own: what it returns, or that it   *)
(* raised. *)
NormalizeOutcome(data, dimensions) ==
    IF NormalizeRaises(data)
    THEN [raised |-> TRUE, value |-> data]
    ELSE [raised |-> FALSE, value |-> Normalized(data, dimensions)]

ApplyNormalize ==
    /\ pc = "off"
    /\ fn.op = "normalize"
    /\ ~fn.applied
    /\ fn' = [fn EXCEPT
                !.out = NormalizeOutcome(fn.arg.data, fn.arg.dimensions),
                !.applied = TRUE]
    /\ UNCHANGED session

(* normalize_model_output called on what it returned, with the same        *)
(* dimensions. *)
ApplyNormalizeAgain ==
    /\ pc = "off"
    /\ fn.op = "normalize"
    /\ fn.applied
    /\ ~fn.out.raised
    /\ ~fn.reapplied
    /\ fn' = [fn EXCEPT
                !.again = NormalizeOutcome(fn.out.value, fn.arg.dimensions),
                !.reapplied = TRUE]
    /\ UNCHANGED session

(* The offers analyze_convergence is tried on: none, one or two keys,      *)
(* with numbers, texts of numbers, other texts and None as values. *)
CurrentPriceInputs ==
    {Num(1050), Num(1099), Num(1100), Num(2000), Num(901), Num(900), Num(0),
     Num(-950), NumText(1050), MixText(1050), Text}

PreviousPriceInputs ==
    {Num(1000), Num(0), Num(-1000), NumText(1000), MixText(1000), Absent}

QuantityInputs == {Num(10), Num(20), Text}

CurrentOfferInputs ==
    { {} }
    \cup { Price(v) : v \in CurrentPriceInputs }
    \cup { Price(v) \cup { <<"Quantity", w>> } :
              v \in CurrentPriceInputs, w \in QuantityInputs }
    \cup { { <<"Quantity", w>> } : w \in QuantityInputs }

PreviousOfferInputs ==
    { {} }
    \cup { Price(v) : v \in PreviousPriceInputs }
    \cup { Price(v) \cup { <<"Quantity", Num(10)>> } :
              v \in PreviousPriceInputs }

ConvergenceInputs ==
    { [current |-> c, previous |-> q] :
        c \in CurrentOfferInputs, q \in PreviousOfferInputs }

ApplyConvergence ==
    /\ pc = "off"
    /\ fn.op = "convergence"
    /\ ~fn.applied
    /\ fn' = [fn EXCEPT
                !.out = AnalyzeConvergence(fn.arg.current, fn.arg.previous),
                !.applied = TRUE]
    /\ UNCHANGED session

ApplyResolveRoles ==
    /\ pc = "off"
    /\ fn.op = "roles"
    /\ ~fn.applied
    /\ fn' = [fn EXCEPT !.out = ResolveRoles(fn.arg), !.applied = TRUE]
    /\ UNCHANGED session

(* The target prices tried: 1.20, 8.00, 10.00, 0 and -5.00. *)
TargetPriceInputs == {120, 800, 1000, 0, -500}

(* The distances tried, as numbers, as text and as dicts with and without  *)
(* a "gesamt". *)
DistanceInputs ==
    { ScalarDistance(x) :
        x \in {Num(-20), Num(0), Num(1), Num(50), Num(80), Num(100), Num(150),
               NumText(50), Text, Absent} }
    \cup { DictDistance(Num(g), Num(g)) : g \in {0, 50, 80, 100, 150} }
    \cup { DictDistance(Absent, Num(60)), DictDistance(Num(0), Num(60)) }

PriceAdjustmentInputs ==
    { [own_target_price |-> t, distance |-> d, opponent_role |-> r] :
        t \in TargetPriceInputs, d \in DistanceInputs,
        r \in {BUYER, SELLER, "buyer", "MEDIATOR"} }

ApplyCalculateOpponentTargetPrice ==
    /\ pc = "off"
    /\ fn.op = "price"
    /\ ~fn.applied
    /\ fn' = [fn EXCEPT
                !.out = CalculateOpponentTargetPrice(fn.arg.own_target_price,
                                                     fn.arg.distance,
                                                     fn.arg.opponent_role),
                !.applied = TRUE]
    /\ UNCHANGED session

(* The guardrail prices tried for a product, <<minimum, maximum>>. *)
GuardrailInputs ==
    { <<Absent, Absent>>, <<Num(800), Num(1500)>>, <<Num(100), Absent>>,
      <<Absent, Num(2000)>>, <<Num(900), Num(1100)>> }

(* Product lists of none, one and two products, in pairs that differ at    *)
(* most in the guardrail prices. *)
ProductListPairs ==
    { << <<>>, <<>> >> }
    \cup { << <<Product("Milka", t, g[1], g[2], Num(500))>>,
              <<Product("Milka", t, h[1], h[2], Num(500))>> >> :
              t \in {Num(1000), Num(120), Absent},
              g \in GuardrailInputs, h \in GuardrailInputs }
    \cup { << <<Product("Milka", Num(1000), g[1], g[2], Num(500)),
                Product("Oreo", Num(120), Absent, Num(200), Absent)>>,
              <<Product("Milka", Num(1000), Absent, Absent, Num(500)),
                Product("Oreo", Num(120), h[1], h[2], Absent)>> >> :
              g \in GuardrailInputs, h \in GuardrailInputs }

PricingInputs ==
    { [products |-> pp, role |-> r, use_self_prompt |-> u, distance |-> d] :
        pp \in ProductListPairs, r \in {BUYER, SELLER}, u \in BOOLEAN,
        d \in { ScalarDistance(Absent), ScalarDistance(Num(50)),
                DictDistance(Num(100), Num(100)) } }

(* _build_pricing_strings called on each list of the pair. *)
ApplyBuildPricingStrings ==
    /\ pc = "off"
    /\ fn.op = "pricing"
    /\ ~fn.applied
    /\ fn' = [fn EXCEPT
                !.out = << BuildPricingStrings(fn.arg.products[1], fn.arg.role,
                                               fn.arg.use_self_prompt,
                                               fn.arg.distance),
                           BuildPricingStrings(fn.arg.products[2], fn.arg.role,
                                               fn.arg.use_self_prompt,
                                               fn.arg.distance) >>,
                !.applied = TRUE]
    /\ UNCHANGED session

(* The product names and raw offer keys tried. *)
MilkaNuss90g ==
    <<"M", "i", "l", "k", "a", " ", "N", "u", "s", "s", " ", "9", "0", "g">>

MilkaNuss ==
    <<"M", "i", "l", "k", "a", " ", "N", "u", "s", "s">>

MilkaNussJoined ==
    <<"M", "i", "l", "k", "a", "N", "u", "s", "s">>

OreoClassic ==
    <<"O", "r", "e", "o", " ", "C", "l", "a", "s", "s", "i", "c">>

OreoClassic2 ==
    <<"O", "r", "e", "o", " ", "C", "l", "a", "s", "s", "i", "c", " ", "2">>

HariboGold ==
    <<"H", "a", "r", "i", "b", "o", " ", "G", "o", "l", "d">>

RitterSport ==
    <<"R", "i", "t", "t", "e", "r", " ", "S", "p", "o", "r", "t", " ", "V",
      "o", "l", "l", " ", "N", "u", "s", "s", " ", "X", "L">>

Kaese ==
    <<"K", "<a-umlaut>", "s", "e">>

Suess ==
    <<"S", "<u-umlaut>", "<sharp-s>">>

Cafe ==
    <<"C", "a", "f", "<e-acute>", " ", "C", "r", "e", "m", "e">>

Oreo ==
    <<"O", "r", "e", "o">>

AepfelUpper ==
    <<"<A-umlaut>", "P", "F", "E", "L">>

TabbedName ==
    <<" ", "B", "i", "o", "<tab>", "M", "i", "l", "c", "h", " ">>

DashedName ==
    <<"K", "i", "n", "d", "e", "r", "-", "R", "i", "e", "g", "e", "l", "_",
      "1", "0", "e", "r">>

BangName ==
    <<"T", "o", "f", "f", "i", "f", "e", "e", "!">>

Key_milkanu ==
    <<"m", "i", "l", "k", "a", "n", "u">>

Key_milka_nuss ==
    <<"m", "i", "l", "k", "a", "_", "n", "u", "s", "s">>

Key_milkanuss ==
    <<"m", "i", "l", "k", "a", "n", "u", "s", "s">>

Key_MILKA_NUSS ==
    <<"M", "I", "L", "K", "A", "_", "N", "U", "S", "S">>

Key_milka_dash_nuss ==
    <<"m", "i", "l", "k", "a", "-", "n", "u", "s", "s">>

Key_xyz ==
    <<"x", "y", "z">>

Key_Price ==
    <<"P", "r", "i", "c", "e">>

Key_milka ==
    <<"m", "i", "l", "k", "a">>

Key_milkax_nuss ==
    <<"m", "i", "l", "k", "a", "x", "_", "n", "u", "s", "s">>

Key_oreo_clas ==
    <<"o", "r", "e", "o", "_", "c", "l", "a", "s">>

Key_oero_classic ==
    <<"o", "e", "r", "o", "_", "c", "l", "a", "s", "s", "i", "c">>

Key_oreo_classic ==
    <<"o", "r", "e", "o", "_", "c", "l", "a", "s", "s", "i", "c">>

Key_oreo_classic_2 ==
    <<"o", "r", "e", "o", "_", "c", "l", "a", "s", "s", "i", "c", "_", "2">>

Key_xarxboxold ==
    <<"x", "a", "r", "x", "b", "o", "x", "o", "l", "d">>

Key_xarxboxxld ==
    <<"x", "a", "r", "x", "b", "o", "x", "x", "l", "d">>

Key_xittersportvollnu ==
    <<"x", "i", "t", "t", "e", "r", "s", "p", "o", "r", "t", "v", "o", "l",
      "l", "n", "u">>

Key_xittersportvollnus ==
    <<"x", "i", "t", "t", "e", "r", "s", "p", "o", "r", "t", "v", "o", "l",
      "l", "n", "u", "s">>

Key_sku_7 ==
    <<"S", "K", "U", "-", "7">>

Key_sku7 ==
    <<"s", "k", "u", "7">>

Key_empty_slug ==
    <<"!", "!">>

ProductNameInputs ==
    { MilkaNuss90g, MilkaNuss, MilkaNussJoined, OreoClassic,
      OreoClassic2, HariboGold, RitterSport, Kaese,
      Suess, Cafe, Oreo, AepfelUpper,
      TabbedName, DashedName, BangName }

RawKeyInputs ==
    { Key_milkanu, Key_milka_nuss, Key_milkanuss,
      Key_MILKA_NUSS, Key_milka_dash_nuss, Key_xyz,
      Key_Price, Key_milka, Key_milkax_nuss,
      Key_oreo_clas, Key_oero_classic, Key_oreo_classic,
      Key_oreo_classic_2, Key_xarxboxold, Key_xarxboxxld,
      Key_xittersportvollnu, Key_xittersportvollnus, Key_sku_7,
      Key_sku7, Key_empty_slug, MilkaNuss,
      MilkaNussJoined }

(* The product lists tried: none, one product, two products, two whose     *)
(* names differ in a space only, one that sets its own key, one without a  *)
(* name. *)
ProductListInputs ==
    { <<>>,
      <<KeyedProduct(MilkaNuss, <<>>), KeyedProduct(OreoClassic, <<>>)>>,
      <<KeyedProduct(OreoClassic, <<>>), KeyedProduct(OreoClassic2, <<>>)>>,
      <<KeyedProduct(MilkaNussJoined, <<>>), KeyedProduct(MilkaNuss, <<>>)>>,
      <<KeyedProduct(MilkaNuss, <<>>), KeyedProduct(MilkaNussJoined, <<>>)>>,
      <<KeyedProduct(HariboGold, <<>>)>>,
      <<KeyedProduct(RitterSport, <<>>)>>,
      <<KeyedProduct(MilkaNuss, Key_sku_7)>>,
      <<KeyedProduct(<<>>, <<>>)>> }

ReconcileInputs ==
    { [key |-> k, products |-> pl] :
        k \in RawKeyInputs, pl \in ProductListInputs }

(* Lines 261-288 for one raw key of offer.dimension_values. *)
ApplyReconcileKey ==
    /\ pc = "off"
    /\ fn.op = "reconcile"
    /\ ~fn.applied
    /\ fn' = [fn EXCEPT !.out = ReconcileKey(fn.arg.key, fn.arg.products),
                        !.applied = TRUE]
    /\ UNCHANGED session

SlugifyInputs ==
    { KeyedProduct(n, <<>>) : n \in ProductNameInputs }
    \cup { KeyedProduct(MilkaNuss, Key_sku_7) }

(* The key of one product as the prompt shows it and as                    *)
(* normalize_model_output expects it. *)
ApplySlugify ==
    /\ pc = "off"
    /\ fn.op = "slugify"
    /\ ~fn.applied
    /\ fn' = [fn EXCEPT !.out = [prompt |-> PromptProductKey(fn.arg),
                                 canonical |-> CorrectKey(fn.arg)],
                        !.applied = TRUE]
    /\ UNCHANGED session

(* What the agents answer in a run of up to three turns: the user role     *)
(* takes the first and the third. *)
OutputInputs ==
    { AgentOutput(m, "continue", Price(Num(v)), ia) :
        m \in {"Unser Angebot steht."}, v \in {1000, 1100},
        ia \in {"Limit 9.00, notfalls 10.00", "Ich bluffe"} }

ScriptInputs ==
    { <<a, b>> : a \in OutputInputs, b \in OutputInputs }
    \cup { <<a, b, c>> : a \in OutputInputs, b \in OutputInputs,
                         c \in { o \in OutputInputs : o.dv = Price(Num(1100)) } }

(* Two runs alike but for the internal_analysis of the turns of role. *)
DifferOnlyInAnalysisOf(role, a, b, user, opponent) ==
    /\ Len(a) = Len(b)
    /\ \A i \in DOMAIN a :
          IF RoleForTurn(i - 1, user, opponent) = role
          THEN [a[i] EXCEPT !.internal_analysis = ""]
                 = [b[i] EXCEPT !.internal_analysis = ""]
          ELSE a[i] = b[i]

(* Pairs of runs that differ in the private thoughts of the user role. *)
DialogueInputs ==
    { p \in ScriptInputs \X ScriptInputs :
        DifferOnlyInAnalysisOf(SELLER, p[1], p[2], SELLER, BUYER) }

DialogueRuns == IF fn.applied THEN fn.out ELSE <<RunStart, RunStart>>

(* The next turn of both runs of the pair. *)
ApplyExecuteTurn ==
    /\ pc = "off"
    /\ fn.op = "dialogue"
    /\ Len(DialogueRuns[1].results) < Len(fn.arg[1])
    /\ LET k == Len(DialogueRuns[1].results) + 1
       IN  fn' = [fn EXCEPT
                    !.out = [ r \in {1, 2} |->
                                ExecuteTurn(DialogueRuns[r], fn.arg[r][k],
                                            user_role, opponent_role,
                                            Len(fn.arg[r])) ],
                    !.applied = TRUE]
    /\ UNCHANGED session

FnInputs ==
    { Call("normalize", a) : a \in NormalizeInputs }
    \cup { Call("dialogue", a) : a \in DialogueInputs }
    \cup { Call("reconcile", a) : a \in ReconcileInputs }
    \cup { Call("slugify", a) : a \in SlugifyInputs }
    \cup { Call("pricing", a) : a \in PricingInputs }
    \cup { Call("price", a) : a \in PriceAdjustmentInputs }
    \cup { Call("convergence", a) : a \in ConvergenceInputs }
    \cup { Call("roles", a) : a \in KindInputs }

FnInit ==
    /\ SessionOff
    /\ fn \in FnInputs

FnNext ==
    \/ ApplyNormalize
    \/ ApplyNormalizeAgain
    \/ ApplyConvergence
    \/ ApplyResolveRoles
    \/ ApplyCalculateOpponentTargetPrice
    \/ ApplyBuildPricingStrings
    \/ ApplyReconcileKey
    \/ ApplyExecuteTurn
    \/ ApplySlugify

FnSpec == FnInit /\ [][FnNext]_vars

----------------------------------------------------------------------------
(* Properties *)

LastRecord == results[Len(results)]

(* _execute_single_round returned nothing in the last turn invoked. *)
InvocationFailed == end_cause \in {"invocation", "shape"}

(* C1: when the agent invocation of a turn fails, the loop stops and the   *)
(* final outcome of the session is ERROR. *)
C1_FailureEndsWithError ==
    (pc = "done" /\ end_cause = "invocation")
        => /\ final_outcome = ERROR
           /\ final_result.outcome = ERROR

(* C2: the invoked turns are numbered on from the length of the pre-seeded *)
(* transcript, the turn with an even 0-based index is taken by the user    *)
(* role and the one with an odd index by the opponent role, and no two     *)
(* consecutive turns are taken by the same role. *)
C2_TurnsAlternate ==
    \A j \in 1..Len(invoked) :
        /\ invoked[j][1] = seed_len + j - 1
        /\ (invoked[j][1] % 2 = 0) => invoked[j][2] = user_role
        /\ (invoked[j][1] % 2 = 1) => invoked[j][2] = opponent_role
        /\ j > 1 => invoked[j][2] # invoked[j - 1][2]

C2_Witness ==
    /\ seed_len = 1
    /\ Len(invoked) >= 3
    /\ invoked[1][2] = opponent_role

(* C3: once a recorded turn is classified DEAL_ACCEPTED, TERMINATED,       *)
(* WALK_AWAY or PAUSED the loop has stopped: that turn is the last one     *)
(* invoked, no extension was evaluated for it, and the final outcome is    *)
(* its classified outcome. *)
C3_TerminalTurnStopsLoop ==
    last_class \in TerminalOutcomes
        => /\ pc = "done"
           /\ ~ext.evaluated
           /\ final_outcome = last_class
           /\ final_result.status = "ok" => final_result.outcome = last_class
           /\ invoked[Len(invoked)][1] = Len(results) - 1

(* A terminal turn in a round at which an extension could have fired. *)
C3_Witness ==
    /\ last_class = TERMINATED
    /\ Len(results) >= 2
    /\ LastRecord.round >= max_rounds
    /\ LastRecord.round < ABSOLUTE_MAX_ROUNDS
    /\ AnalyzeConvergence(LastRecord.response.offer.dv,
                          results[Len(results) - 1].response.offer.dv)

(* C4: the classified outcome of a recorded turn is decided by its action, *)
(* batna_assessment and walk_away_threshold alone: accept, terminate,      *)
(* walk_away and pause give their outcome whatever the scores, and any     *)
(* other action gives WALK_AWAY exactly when batna_assessment is strictly  *)
(* below walk_away_threshold and the non-terminal value otherwise. *)
C4_OutcomeClassifier ==
    (last_class \notin {"none", "raised"})
        => LET r == LastRecord.response
               b == GetScore(r.batna_assessment, DefaultBatnaTenths).v
               t == GetScore(r.walk_away_threshold, DefaultThresholdTenths).v
           IN  /\ r.action = "accept" => last_class = DEAL_ACCEPTED
               /\ r.action = "terminate" => last_class = TERMINATED
               /\ r.action = "walk_away" => last_class = WALK_AWAY
               /\ r.action = "pause" => last_class = PAUSED
               /\ r.action \notin {"accept", "terminate", "walk_away", "pause"}
                     => /\ (b < t) => last_class = WALK_AWAY
                        /\ (b >= t) => last_class = ERROR

(* A turn that goes on with batna_assessment equal to the threshold. *)
C4_Witness ==
    /\ last_class = ERROR
    /\ LastRecord.response.action = "continue"
    /\ LastRecord.response.batna_assessment = LastRecord.response.walk_away_threshold

OwnTurns ==
    { i \in 1..Len(results) : results[i].agent = LastRecord.agent }

PreviousOwnTurn ==
    CHOOSE i \in OwnTurns \ {Len(results)} :
        \A j \in OwnTurns \ {Len(results)} : j <= i

(* C6 as stated: after a non-terminal turn by role R the budget is         *)
(* extended exactly when the round has reached the budget, R has at least  *)
(* two recorded turns, the round is below the absolute budget, and R's own *)
(* last two offers converge. *)
C6_ExtendsOnOwnOffers ==
    ext.evaluated
        => (ext.fired <=>
              /\ ext.round >= ext.before
              /\ Cardinality(OwnTurns) >= 2
              /\ ext.round < ABSOLUTE_MAX_ROUNDS
              /\ AnalyzeConvergence(LastRecord.response.offer.dv,
                                    results[PreviousOwnTurn].response.offer.dv))

(* C6 amended: after a non-terminal turn the budget is extended exactly    *)
(* when the round has reached the budget, the transcript holds at least    *)
(* two turns, the round is below the absolute budget, and the last two     *)
(* recorded offers (the one just made and the other party's before it)     *)
(* converge. *)
C6_ExtendsOnLastTwoOffers ==
    ext.evaluated
        => /\ ext.fired <=>
                /\ ext.round >= ext.before
                /\ Len(results) >= 2
                /\ ext.round < ABSOLUTE_MAX_ROUNDS
                /\ AnalyzeConvergence(LastRecord.response.offer.dv,
                                      results[Len(results) - 1].response.offer.dv)
           /\ ext.fired <=> max_rounds # ext.before

(* An extension after the second turn of the session, the first of its     *)
(* role. *)
C6_Witness ==
    /\ ext.fired
    /\ Len(results) = 2
    /\ Cardinality(OwnTurns) = 1

(* C7: an extension sets the budget to min(round + 3, 20), which is above  *)
(* the budget before it and not above 20; the budget never decreases. *)
C7_ExtensionValue ==
    /\ [](ext.fired
            => /\ max_rounds = Min(ext.round + 3, 20)
               /\ max_rounds > ext.before
               /\ max_rounds <= ABSOLUTE_MAX_ROUNDS)
    /\ [][pc # "start" => max_rounds' >= max_rounds]_vars

(* An extension cut at the absolute budget. *)
C7_Witness ==
    /\ ext.fired
    /\ ext.round + 3 > 20
    /\ max_rounds = 20

(* C8: the final offer is the offer of the turn before the last when the   *)
(* deal was accepted with an offer without dimension values and that       *)
(* earlier offer has some; in every other case it is the last turn's own   *)
(* offer. *)
C8_FinalOfferSelection ==
    (pc = "done" /\ final_result.status = "ok" /\ results # <<>>)
        => LET last == LastRecord.response.offer
               accepted == final_result.outcome = DEAL_ACCEPTED
               hasPrev == Len(results) >= 2
               prev == results[Len(results) - 1].response.offer
           IN  /\ (accepted /\ last.dv = {} /\ hasPrev /\ prev.dv # {})
                     => final_result.finalOffer = prev
               /\ ~accepted => final_result.finalOffer = last
               /\ last.dv # {} => final_result.finalOffer = last
               /\ ~hasPrev => final_result.finalOffer = last
               /\ (hasPrev /\ prev.dv = {}) => final_result.finalOffer = last

C8_Witness ==
    /\ pc = "done"
    /\ final_result.outcome = DEAL_ACCEPTED
    /\ LastRecord.response.offer.dv = {}
    /\ final_result.finalOffer.dv = { <<"Price", Num(1000)>> }

C10_ShapeErrorsNeverEndSession ==
    end_cause \in {"none", "invocation"}

(* C11: once a session has started from a pre-seeded transcript, every     *)
(* record at 0-based position p, pre-seeded or new, has turn number p + 1  *)
(* and round number floor(p / 2) + 1, whatever the stored records carried. *)
C11_NumberingFromPosition ==
    pc # "start"
        => \A i \in 1..Len(results) :
              /\ results[i].turn = Num(i)
              /\ results[i].round = ((i - 1) \div 2) + 1

(* C12: the loop looks at the stop request before it starts a turn: once   *)
(* a stop has been asked for, no further agent turn is invoked and the     *)
(* recorded turns stay as they are. *)
C12_StopSignalHonoured ==
    [][stop_requested => (invoked' = invoked /\ results' = results)]_vars

(* C13: every turn the loop records has exactly one call of                *)
(* emit_round_update, made in turn order with the round, role, action and  *)
(* offer of that turn, the turn that ends the session included; the call   *)
(* prints its line unless it fails; and a call that fails leaves the       *)
(* record in the transcript, the loop running and the outcome as the turn  *)
(* was classified. *)
C13_OneEventPerRecordedTurn ==
    /\ Len(events) = Len(results) - seed_len
    /\ Len(events) = Len(invoked) - (IF InvocationFailed THEN 1 ELSE 0)
    /\ \A j \in 1..Len(events) :
          LET e == events[j]
              r == results[seed_len + j]
          IN  /\ e.round = r.round
              /\ e.agent = r.agent
              /\ e.offer = r.response.offer
              /\ r.response.kind = "dict" => e.action = r.response.action
              /\ (stdout_open /\ r.response.kind = "dict") => e.printed
    /\ (events # <<>> /\ ~events[Len(events)].printed /\ ~InvocationFailed)
          => /\ (last_class = ERROR /\ LoopGuard(turn_index, max_rounds))
                    => pc = "loop"
             /\ (last_class \in TerminalOutcomes)
                    => (pc = "done" /\ final_outcome = last_class)
             /\ (last_class = ERROR /\ ~LoopGuard(turn_index, max_rounds))
                    => (pc = "done" /\ final_outcome = MAX_ROUNDS_REACHED)

(* A session that went on after a call that printed nothing, and then      *)
(* ended with a turn that was accepted and has its own call. *)
C13_Witness ==
    /\ pc = "done"
    /\ Len(events) = 3
    /\ events[1].printed
    /\ ~events[2].printed
    /\ events[3].action = "accept"
    /\ final_outcome = DEAL_ACCEPTED

NormalizeApplied == fn.op = "normalize" /\ fn.applied

(* C14: normalize_model_output never raises, whatever the raw output, and  *)
(* the action it returns is one of continue, accept, terminate, walk_away  *)
(* and pause: a recognised action in any letter case is lower-cased, and a *)
(* missing, empty, non-string or unrecognised one becomes continue. *)
C14_NormalizeNeverRaises ==
    NormalizeApplied
        => LET a == fn.arg.data.action
               r == fn.out.value.action
           IN  /\ ~fn.out.raised
               /\ r \in AllowedActions
               /\ a \in {"accept", "ACCEPT"} => r = "accept"
               /\ a \in {"continue", "Continue"} => r = "continue"
               /\ a \in {"walk_away", "Walk_Away"} => r = "walk_away"
               /\ a \in {"pause", "Pause"} => r = "pause"
               /\ a \in {"terminate", "TERMINATE"} => r = "terminate"
               /\ a \in {"", "bogus", NumberAction} => r = "continue"

(* C15: for a registry dimension with known minValue <= maxValue, every    *)
(* value normalize_model_output returns for it lies between the two, also  *)
(* after the rounding of currency, time and percentage units and when the  *)
(* bounds are not integers. *)
C15_ValuesWithinBounds ==
    (NormalizeApplied /\ ~fn.out.raised)
        => \A d \in fn.arg.dimensions :
              (d.minValue.t = "num" /\ d.maxValue.t = "num"
               /\ d.minValue.v <= d.maxValue.v)
                 => \A p \in fn.out.value.offer.dv :
                       p[1] = d.name
                          => /\ d.minValue.v <= p[2].v
                             /\ p[2].v <= d.maxValue.v

(* The score y returned for the raw score x: the default when x is missing *)
(* or holds no number, else the number in x brought into [0, 1]. *)
ScoreRepaired(x, y, default) ==
    /\ y.t = "num"
    /\ 0 <= y.v /\ y.v <= 10
    /\ x.t \in {"none", "str"} => y.v = default
    /\ x.t \in {"num", "numstr", "mixstr"}
          => /\ x.v < 0 => y.v = 0
             /\ x.v > 10 => y.v = 10
             /\ (0 <= x.v /\ x.v <= 10) => y.v = x.v

(* C16: after normalization offer.confidence, batna_assessment and         *)
(* walk_away_threshold are numbers in [0, 1]: a missing or non-numeric     *)
(* value takes the default 0.5, 0.5 and 0.3, a value below 0 becomes 0,    *)
(* one above 1 becomes 1, and one in [0, 1] is unchanged. *)
C16_ScoresClamped ==
    (NormalizeApplied /\ ~fn.out.raised)
        => /\ ScoreRepaired(fn.arg.data.offer.confidence,
                            fn.out.value.offer.confidence, 5)
           /\ ScoreRepaired(fn.arg.data.batna_assessment,
                            fn.out.value.batna_assessment, 5)
           /\ ScoreRepaired(fn.arg.data.walk_away_threshold,
                            fn.out.value.walk_away_threshold, 3)

(* A response with batna_assessment 1.5, walk_away_threshold -0.2 and a    *)
(* confidence that is no number, normalized. *)
C16_Witness ==
    /\ NormalizeApplied
    /\ fn.arg.data.batna_assessment = Num(15)
    /\ fn.arg.data.walk_away_threshold = Num(-2)
    /\ fn.arg.data.offer.confidence = Text
    /\ fn.out.value.batna_assessment = Num(10)
    /\ fn.out.value.walk_away_threshold = Num(0)
    /\ fn.out.value.offer.confidence = Num(5)

ConvergenceApplied == fn.op = "convergence" /\ fn.applied

(* The keys both offers hold with a numeric value on both sides, each with *)
(* its current and previous value. *)
SharedNumeric ==
    { <<c[1], c[2].v, q[2].v>> :
        <<c, q>> \in { x \in fn.arg.current \X fn.arg.previous :
                         /\ x[1][1] = x[2][1]
                         /\ x[1][2].t \in {"num", "numstr"}
                         /\ x[2][2].t \in {"num", "numstr"} } }

(* Those whose values differ by less than a tenth of the previous one. *)
SharedConverged ==
    { k \in SharedNumeric : 10 * Abs(k[2] - k[3]) < Abs(k[3]) }

RolesApplied == fn.op = "roles" /\ fn.applied

(* C18: whatever the counterpart kind, role resolution gives one BUYER and *)
(* one SELLER, the user being the complement of the opponent: a buyer-type *)
(* kind makes the opponent BUYER, a seller-type kind makes it SELLER, and  *)
(* an unknown or missing kind gives opponent BUYER and user SELLER, with a *)
(* warning. *)
C18_RolesAreComplementary ==
    RolesApplied
        => /\ {fn.out.opponent_role, fn.out.user_role} = {BUYER, SELLER}
           /\ fn.arg \in {"retailer", "Retailer", "buyer", "BUYER"}
                 => (fn.out.opponent_role = BUYER /\ ~fn.out.warned)
           /\ fn.arg \in {"manufacturer", "MANUFACTURER", "seller", "Seller",
                           "hersteller"}
                 => (fn.out.opponent_role = SELLER /\ ~fn.out.warned)
           /\ fn.arg \in {"", "distributor", "customer"}
                 => /\ fn.out.opponent_role = BUYER
                    /\ fn.out.user_role = SELLER
                    /\ fn.out.warned

(* A seller-type kind in mixed case: the user becomes the BUYER. *)
C18_Witness ==
    /\ RolesApplied
    /\ fn.arg = "Seller"
    /\ fn.out.opponent_role = SELLER
    /\ fn.out.user_role = BUYER

PriceApplied == fn.op = "price" /\ fn.applied

(* The distance is given as a number, directly or as the "gesamt" of a     *)
(* dict that holds nothing before it. *)
NumericDistanceGiven ==
    /\ fn.arg.distance.gesamt.t = "num"
    /\ fn.arg.distance.first = fn.arg.distance.gesamt

(* C19: the perceived target price is trueTarget * (1 - d) for a BUYER     *)
(* opponent and trueTarget * (1 + d) for a SELLER opponent, with           *)
(* d = clamp(distance, 0, 100) / 100 * 0.30: distance 0 leaves the target  *)
(* as it is, a distance below 0 or above 100 counts as 0 or 100, and for a *)
(* positive target the price is never above the target for a BUYER and     *)
(* never below it for a SELLER (10.00 at distance 100 as BUYER is 7.00,    *)
(* 10.00 at distance 50 as SELLER is 11.50). *)
C19_PerceivedTargetPrice ==
    (PriceApplied /\ NumericDistanceGiven
     /\ fn.arg.opponent_role \in {BUYER, SELLER})
        => LET target == fn.arg.own_target_price
               given == fn.arg.distance.gesamt.v
               clamped == IF given < 0 THEN 0
                          ELSE IF given > 100 THEN 100 ELSE given
               buyer == fn.arg.opponent_role = BUYER
           IN  /\ buyer => fn.out = target * (1000 - 3 * clamped)
               /\ ~buyer => fn.out = target * (1000 + 3 * clamped)
               /\ given <= 0 => fn.out = target * 1000
               /\ (given >= 100 /\ buyer) => fn.out = target * 700
               /\ (given >= 100 /\ ~buyer) => fn.out = target * 1300
               /\ (target > 0 /\ buyer) => fn.out <= target * 1000
               /\ (target > 0 /\ ~buyer) => fn.out >= target * 1000
               /\ (target = 1000 /\ given = 100 /\ buyer) => fn.out = 700000
               /\ (target = 1000 /\ given = 50 /\ ~buyer) => fn.out = 1150000

(* 10.00 at a distance of 150, which counts as 100, for a BUYER: 7.00. *)
C19_Witness ==
    /\ PriceApplied
    /\ fn.arg.own_target_price = 1000
    /\ fn.arg.distance = ScalarDistance(Num(150))
    /\ fn.arg.opponent_role = BUYER
    /\ fn.out = 700000

PricingApplied == fn.op = "pricing" /\ fn.applied

(* The two product lists are alike but for minimum and maximum prices. *)
DifferOnlyInGuardrails(a, b) ==
    /\ Len(a) = Len(b)
    /\ \A i \in 1..Len(a) :
          /\ a[i].name = b[i].name
          /\ a[i].target = b[i].target
          /\ a[i].volume = b[i].volume

(* C20: the opponent-facing pricing view shows no minimum or maximum       *)
(* price: two product lists that differ only in those give the same        *)
(* opponent-facing view; and the self-facing view shows the true target    *)
(* price whatever the counterpart distance. *)
C20_GuardrailsHidden ==
    PricingApplied
        => /\ (~fn.arg.use_self_prompt
               /\ DifferOnlyInGuardrails(fn.arg.products[1], fn.arg.products[2]))
                 => fn.out[1] = fn.out[2]
           /\ fn.arg.use_self_prompt
                 => \A k \in {1, 2} : \A i \in 1..Len(fn.arg.products[k]) :
                       LET target == fn.arg.products[k][i].target
                           shown == fn.out[k].zielpreise[i]
                       IN  IF target.t = "none" THEN shown.shown = "dash"
                           ELSE shown.shown = "price" /\ shown.cents = target.v

(* An opponent-facing view of two lists with different guardrails, at a    *)
(* distance that moves the target shown. *)
C20_Witness ==
    /\ PricingApplied
    /\ ~fn.arg.use_self_prompt
    /\ Len(fn.arg.products[1]) = 1
    /\ fn.arg.products[1][1].max_price # fn.arg.products[2][1].max_price
    /\ fn.arg.products[1][1].min_price # fn.arg.products[2][1].min_price
    /\ fn.arg.products[1][1].target = Num(1000)
    /\ fn.out[1].zielpreise[1].cents = 850
    /\ fn.out[1] = fn.out[2]

(* The registry entry knows its bound b. *)
BoundKnown(b) == b.t = "num"

(* A response that is normalized and in bounds already: an allowed action, *)
(* the three scores numbers in [0, 1], and every dimension value a number  *)
(* that is within the bounds its registry entry knows and an integer when  *)
(* the unit is a rounded one. *)
AlreadyNormalized(data, dimensions) ==
    /\ data.kind = "dict"
    /\ data.action \in AllowedActions
    /\ data.offer.kind = "map"
    /\ \A x \in {data.batna_assessment, data.walk_away_threshold,
                  data.offer.confidence} :
          x.t = "num" /\ 0 <= x.v /\ x.v <= 10
    /\ \A p \in data.offer.dv :
          /\ p[2].t = "num"
          /\ \A d \in DimMeta(dimensions, p[1]) :
                /\ BoundKnown(d.minValue) => d.minValue.v <= p[2].v
                /\ BoundKnown(d.maxValue) => p[2].v <= d.maxValue.v
                /\ d.unit \in IntegerUnits => p[2].v % 10 = 0

(* C21: normalization is idempotent: normalizing what normalization        *)
(* returned gives the same again, and a response that is normalized and in *)
(* bounds already is returned unchanged. *)
C21_NormalizeIdempotent ==
    /\ (fn.op = "normalize" /\ fn.reapplied)
          => (~fn.again.raised /\ fn.again.value = fn.out.value)
    /\ (NormalizeApplied /\ AlreadyNormalized(fn.arg.data, fn.arg.dimensions))
          => (~fn.out.raised /\ fn.out.value = fn.arg.data)

ReconcileApplied == fn.op = "reconcile" /\ fn.applied

(* The products of the call that have a name, and their canonical keys. *)
NamedProducts ==
    { fn.arg.products[i] : i \in { j \in DOMAIN fn.arg.products :
                                      fn.arg.products[j].name # <<>> } }

CanonicalKeys == { CorrectKey(p) : p \in NamedProducts }

(* The canonical keys that k is a known form of: the key itself, the key   *)
(* without underscores, lower-cased, or the product name lower-cased and   *)
(* without spaces. *)
AliasTargets(k) ==
    { CorrectKey(p) : p \in { q \in NamedProducts :
          k \in { CorrectKey(q), Without(CorrectKey(q), "_"),
                  LowerStr(CorrectKey(q)), Without(LowerStr(q.name), " ") } } }

(* The canonical keys that k is similar to. *)
SimilarTargets(k) == { c \in CanonicalKeys : IsSimilarProductKey(k, c) }

(* C22: with products given, a raw key resolves by the first rule that     *)
(* applies: the key or a known form of a canonical key; else the same for  *)
(* the re-slugified key; else a canonical key it is similar to; a key that *)
(* fits no rule stays as it is, and a key that is canonical already is     *)
(* never changed ("milkanu" resolves to "milka_nuss"). *)
C22_KeyReconciliation ==
    ReconcileApplied
        => LET key == fn.arg.key
               slug == SlugifyProductKey(key)
           IN  /\ Cardinality(fn.out) >= 1
               /\ NamedProducts = {} => fn.out = {key}
               /\ key \in CanonicalKeys => fn.out = {key}
               /\ IF AliasTargets(key) # {}
                  THEN fn.out \subseteq AliasTargets(key)
                  ELSE IF AliasTargets(slug) # {}
                  THEN fn.out \subseteq AliasTargets(slug)
                  ELSE IF SimilarTargets(slug) # {}
                  THEN fn.out \subseteq SimilarTargets(slug)
                  ELSE fn.out = {key}
               /\ (key = Key_milkanu /\ CanonicalKeys = {Key_milka_nuss})
                     => fn.out = {Key_milka_nuss}

SlugifyApplied == fn.op = "slugify" /\ fn.applied

(* C26: the key the orchestrator shows in the agent prompt for a product   *)
(* is the key the normalizer derives for it; "Milka Nuss 90g" gives        *)
(* "milka_nuss_90g" in both. *)
C26_SlugifyAgrees ==
    SlugifyApplied
        => /\ fn.out.prompt = fn.out.canonical
           /\ (fn.arg.name = MilkaNuss90g /\ fn.arg.product_key = <<>>)
                 => /\ fn.out.prompt = SlugifyProductKey(MilkaNuss90g)
                    /\ Len(fn.out.prompt) = 14

DialogueApplied == fn.op = "dialogue" /\ fn.applied

(* C23: what the other role's agent is given on a turn (its instructions   *)
(* and the session items passed to the invocation) is the same in two runs *)
(* that differ only in the internal_analysis this role produced. *)
C23_AnalysisStaysPrivate ==
    DialogueApplied
        => \A j \in DOMAIN fn.out[1].inputs :
              fn.out[1].inputs[j].agent = opponent_role
                 => fn.out[1].inputs[j] = fn.out[2].inputs[j]

(* C24: a registry dimension that declares no minValue or no maxValue is   *)
(* not clamped: the value returned for it is the number taken from the raw *)
(* value (rounded when the unit asks for it), never 0 or the other bound   *)
(* in its place. *)
C24_NoClampWithoutBothBounds ==
    (NormalizeApplied /\ ~fn.out.raised)
        => \A d \in fn.arg.dimensions :
              (~BoundKnown(d.minValue) \/ ~BoundKnown(d.maxValue))
                 => \A p \in fn.arg.data.offer.dv :
                       (p[1] = d.name /\ ExtractNumeric(p[2]).t = "num")
                          => LET val == ExtractNumeric(p[2]).v
                                 kept == IF d.unit \in IntegerUnits
                                         THEN RoundToInt(val) ELSE val
                             IN  <<p[1], Num(kept)>> \in fn.out.value.offer.dv

(* The keys of a dimension_values map. *)
KeysOf(dv) == { p[1] : p \in dv }

(* C25: a raw value that holds no number is replaced by the target value   *)
(* of its registry entry when that has one, else by the midpoint of the    *)
(* entry's minimum and maximum, and the key is dropped only when it has no *)
(* registry entry. *)
C25_FallbackOrder ==
    (NormalizeApplied /\ ~fn.out.raised)
        => \A p \in fn.arg.data.offer.dv :
              ExtractNumeric(p[2]).t = "none"
                 => LET meta == DimMeta(fn.arg.dimensions, p[1])
                        out == fn.out.value.offer.dv
                    IN  /\ meta = {} => p[1] \notin KeysOf(out)
                        /\ \A d \in meta :
                              /\ d.targetValue.t = "num"
                                    => <<p[1], Num(IF d.unit \in IntegerUnits
                                                   THEN RoundToInt(d.targetValue.v)
                                                   ELSE d.targetValue.v)>> \in out
                              /\ (d.targetValue.t = "none"
                                  /\ BoundKnown(d.minValue) /\ BoundKnown(d.maxValue))
                                    => \E q \in out :
                                          /\ q[1] = p[1]
                                          /\ Abs(2 * q[2].v
                                                 - (d.minValue.v + d.maxValue.v))
                                                <= (IF d.unit \in IntegerUnits
                                                    THEN 10 ELSE 0)

(* C27: the loop only appends to the transcript: a turn whose response     *)
(* came back adds exactly one record at the end, any other step of the     *)
(* loop leaves the transcript as it is, and no record already there is     *)
(* changed or removed; in a fresh session the record at 0-based position p *)
(* has turn p + 1 and round floor((turn - 1) / 2) + 1, so that the         *)
(* totalRounds returned is the number of recorded turns halved and rounded *)
(* up. *)
C27_TranscriptAppendOnly ==
    /\ [][pc = "loop"
            => /\ SubSeq(results', 1, Len(results)) = results
               /\ IF invoked' # invoked /\ ~InvocationFailed'
                  THEN Len(results') = Len(results) + 1
                  ELSE results' = results]_vars
    /\ []((seed_len = 0 /\ pc # "start")
            => /\ \A i \in 1..Len(results) :
                     /\ results[i].turn = Num(i)
                     /\ results[i].round = ((results[i].turn.v - 1) \div 2) + 1
               /\ final_result.status = "ok"
                     => final_result.totalRounds = (Len(results) + 1) \div 2)

(* A fresh session that ended after an odd number of recorded turns. *)
C27_Witness ==
    /\ seed_len = 0
    /\ pc = "done"
    /\ Len(results) = 3
    /\ Len(invoked) = 3
    /\ final_result.status = "ok"
    /\ final_result.totalRounds = 2

AppendedTurns == (seed_len + 1)..Len(results)

(* C29: every record the loop appends carries an action out of accept,     *)
(* continue, terminate, walk_away and pause, and a batna_assessment and a  *)
(* walk_away_threshold that are numbers in [0, 1], whatever the agent      *)
(* produced, output on which the normalization fails included. *)
C29_RecordedTurnsRepaired ==
    pc # "start"
        => \A i \in AppendedTurns :
              LET r == results[i].response
              IN  /\ r.kind = "dict"
                  /\ r.action \in AllowedActions
                  /\ r.batna_assessment.t = "num"
                  /\ r.batna_assessment.v \in 0..10
                  /\ r.walk_away_threshold.t = "num"
                  /\ r.walk_away_threshold.v \in 0..10

(* The stored transcript ends with a turn that ended its session. *)
SeedEndedSession ==
    /\ seed_len >= 1
    /\ results[seed_len].response.kind = "dict"
    /\ results[seed_len].response.action
          \in {"accept", "terminate", "walk_away", "pause"}

(* C30: a session resumed from a transcript whose last turn carries a      *)
(* terminal action invokes no agent turn, and its final outcome is the     *)
(* outcome of that action. *)
C30_EndedSessionStaysEnded ==
    (pc # "start" /\ SeedEndedSession)
        => /\ invoked = <<>>
           /\ pc = "done"
           /\ final_outcome = DetermineOutcome(results[seed_len].response.action,
                                               results[seed_len].response)

============================================================================
